---------------------------- MODULE Spec2Model ----------------------------
(***************************************************************************)
(* Model of the circuit loader of Expander-rs: the binary decoders         *)
(* (CoefType::read, Gate::read, Segment::read), RecursiveCircuit::flatten  *)
(* with Segment::scan_leaf_segments, and the special-coefficient index of  *)
(* Circuit (identify_special_coefs, Clone, fill_rnd_coefs, fill_pub_coefs, *)
(* load_witness_bytes); of the evaluation of a circuit and of the GKR       *)
(* prover with the sumcheck helper of a layer; of the packed Mersenne      *)
(* field (m31_avx.rs); and of the Plonk constraint system.                 *)
(*                                                                         *)
(* A reader is the sequence of bytes still unread.  A decoder returns      *)
(* [ok, val, rest]: ok = FALSE is a panic of the process, and rest is the  *)
(* reader at the place the decoder stopped.                                *)
(***************************************************************************)
EXTENDS Integers, Sequences, FiniteSets, TLC

VARIABLES
    pc,         \* where the process is: "run", or "panic" / "stack_overflow" once aborted
    reader,     \* the bytes still unread of the stream under decoding
    last,       \* the last call of a decoder or of a packed field operation: what it
                \* was given and what it returned
    rc,         \* the RecursiveCircuit under construction by load
    heap,       \* the Circuit objects alive, heap[1] the template and the rest its clones
    transcript, \* the number of challenges drawn from the transcript so far
    log,        \* the driver's last call on a circuit: its number, its arguments, the heap
                \* before it, the pointers it wrote through, in order, and the call before it
    prover      \* the prover at work: its scratchpad, the locals of gkr_prove and of the
                \* layer's sumcheck, and what it has sent and drawn so far

vars == <<pc, reader, last, rc, heap, transcript, log, prover>>

(***************************************************************************)
(* Bounds of the model.                                                    *)
(***************************************************************************)
\* lanes of a SimdCircuitField value
SIMD_SIZE == 2
\* depth of recursion the thread's stack holds
StackLimit == 5
\* entries of RecursiveCircuit.layers
MaxLayers == 2
\* calls the driver makes on its circuits, the load included
MaxCalls == 4
\* order of the field, in place of 2^31 - 1 (products stay within the integers
\* of the model checker)
FieldOrder == 251
\* bits of a lane of a packed Mersenne value, in place of 32
LANE_BITS == 6
\* double lanes of a packed Mersenne value, in place of 4
PACK_PAIRS == 1
\* calls the builder makes on a constraint system after init
MaxGates == 3

(***************************************************************************)
(* Field values and SIMD packings.                                         *)
(***************************************************************************)
Lanes == 1..SIMD_SIZE

\* C::circuit_field_to_simd_circuit_field: one scalar in every lane
Broadcast(c) == [k \in Lanes |-> c]

\* C::SimdCircuitField::zero()
SimdZero == Broadcast(0)

\* C::simd_circuit_field_from_circuit_field_array: lane k is scalars[k]
FromScalarArray(scalars) == [k \in Lanes |-> scalars[k]]

(***************************************************************************)
(* Sequence helpers.                                                       *)
(***************************************************************************)
Drop(s, n) == SubSeq(s, n + 1, Len(s))

Zeros(n) == [k \in 1..n |-> 0]

RECURSIVE Pow2(_)
Pow2(n) == IF n = 0 THEN 1 ELSE 2 * Pow2(n - 1)

RECURSIVE Concat(_)
Concat(ss) == IF ss = <<>> THEN <<>> ELSE Head(ss) \o Concat(Tail(ss))

(***************************************************************************)
(* Decoder results.                                                        *)
(***************************************************************************)
\* the decoder returned val, the reader being left at rest
Ok(val, rest) == [ok |-> TRUE, val |-> val, rest |-> rest]

\* the decoder panicked with the reader at rest
Panic(rest) == [ok |-> FALSE, val |-> <<>>, rest |-> rest]

\* sequencing of two reads on one reader, as the statements of Gate::read
\* and Segment::read follow each other: a panic of the first is the panic of
\* the whole, and otherwise the code after it runs on its value and the
\* reader it left
Bind(res, Cont(_, _)) == IF res.ok THEN Cont(res.val, res.rest) ELSE res

(***************************************************************************)
(* Integer decoding.                                                       *)
(***************************************************************************)
\* the little-endian value of the first n bytes of r
RECURSIVE LittleEndian(_, _)
LittleEndian(r, n) ==
    IF n = 0 THEN 0 ELSE r[1] + 256 * LittleEndian(Tail(r), n - 1)

\* u64::deserialize_from: eight bytes, little-endian; a truncated stream is fatal
U64_deserialize_from(r) ==
    IF Len(r) < 8 THEN Panic(r) ELSE Ok(LittleEndian(r, 8), Drop(r, 8))

\* CircuitField::try_deserialize_from_ecc_format: 32 bytes, the value in the
\* first four and 28 zero bytes after them; ok = FALSE is the failure the
\* caller unwraps (a panic) or returns (an Err)
try_deserialize_from_ecc_format(r) ==
    IF Len(r) < 32 \/ \E k \in 5..32 : r[k] # 0
    THEN Panic(r)
    ELSE Ok(LittleEndian(r, 4), Drop(r, 32))

\* usize::count_ones
RECURSIVE count_ones(_)
count_ones(x) == IF x = 0 THEN 0 ELSE (x % 2) + count_ones(x \div 2)

\* usize::is_power_of_two
is_power_of_two(x) == count_ones(x) = 1

\* usize::trailing_zeros, of a 64-bit word
RECURSIVE trailing_zeros(_)
trailing_zeros(x) ==
    IF x = 0 THEN 64
    ELSE IF x % 2 = 1 THEN 0 ELSE 1 + trailing_zeros(x \div 2)

(***************************************************************************)
(* CoefType and Gate (src/circuit/gate.rs).                                *)
(***************************************************************************)
Constant == [tag |-> "Constant", idx |-> 0]
Random == [tag |-> "Random", idx |-> 0]
PublicInput(i) == [tag |-> "PublicInput", idx |-> i]

\* the byte read_exact leaves in the one-byte buffer: the next byte, or the
\* initial 0 at the end of the stream (the result of read_exact is dropped)
read_exact_byte(r) == IF Len(r) >= 1 THEN r[1] ELSE 0

\* the reader after read_exact of one byte
read_exact_rest(r) == IF Len(r) >= 1 THEN Tail(r) ELSE r

\* a faulty CoefType::read that reads an index after the Random tag too
CoefType_read_payload(r) ==
    IF read_exact_byte(r) = 1 THEN Ok(Constant, read_exact_rest(r))
    ELSE IF read_exact_byte(r) = 2
    THEN Bind(U64_deserialize_from(read_exact_rest(r)),
              LAMBDA idx, r1 : Ok(Random, r1))
    ELSE IF read_exact_byte(r) = 3
    THEN Bind(U64_deserialize_from(read_exact_rest(r)),
              LAMBDA idx, r1 : Ok(PublicInput(idx), r1))
    ELSE Panic(read_exact_rest(r))

CoefType_read(r) ==
    IF read_exact_byte(r) = 1 THEN Ok(Constant, read_exact_rest(r))
    ELSE IF read_exact_byte(r) = 2 THEN Ok(Random, read_exact_rest(r))
    ELSE IF read_exact_byte(r) = 3
    THEN Bind(U64_deserialize_from(read_exact_rest(r)),
              LAMBDA idx, r1 : Ok(PublicInput(idx), r1))
    ELSE Panic(read_exact_rest(r))

\* Gate::new
Gate_new(INPUT_NUM) ==
    [i_ids |-> [k \in 1..INPUT_NUM |-> 0], o_id |-> 0, coef |-> SimdZero,
     coef_type |-> Constant, gate_type |-> 0]

\* a loop pushing n u64 values
RECURSIVE ReadIds(_, _, _)
ReadIds(r, n, acc) ==
    IF n = 0 THEN Ok(acc, r)
    ELSE Bind(U64_deserialize_from(r),
              LAMBDA id, r1 : ReadIds(r1, n - 1, Append(acc, id)))

\* a loop pushing n field elements
RECURSIVE ReadElems(_, _, _)
ReadElems(r, n, acc) ==
    IF n = 0 THEN Ok(acc, r)
    ELSE Bind(try_deserialize_from_ecc_format(r),
              LAMBDA f, r1 : ReadElems(r1, n - 1, Append(acc, f)))

\* the coefficient read after the CoefType: a field element in every lane
\* for Constant, and for the other types nothing is read and old stays
ReadCoef(coef_type, old, r) ==
    IF coef_type = Constant
    THEN Bind(try_deserialize_from_ecc_format(r), LAMBDA f, r1 : Ok(Broadcast(f), r1))
    ELSE Ok(old, r)

Gate_read(INPUT_NUM, r) ==
    Bind(ReadIds(r, INPUT_NUM, <<>>), LAMBDA i_ids, r1 :
    Bind(U64_deserialize_from(r1), LAMBDA o_id, r2 :
    Bind(CoefType_read(r2), LAMBDA coef_type, r3 :
    Bind(ReadCoef(coef_type, Gate_new(INPUT_NUM).coef, r3), LAMBDA coef, r4 :
        Ok([Gate_new(INPUT_NUM) EXCEPT !.i_ids = i_ids, !.o_id = o_id,
                                       !.coef_type = coef_type, !.coef = coef],
           r4)))))

(***************************************************************************)
(* Segment::read (src/circuit/ecc_circuit.rs).                             *)
(***************************************************************************)
Allocation(i, o) == [i_offset |-> i, o_offset |-> o]

\* the inner loop over allocation_num: every allocation read is pushed as a
\* child_segs entry of its own
RECURSIVE ReadAllocations(_, _, _, _)
ReadAllocations(r, child_seg_id, n, acc) ==
    IF n = 0 THEN Ok(acc, r)
    ELSE Bind(U64_deserialize_from(r), LAMBDA i_offset, r1 :
         Bind(U64_deserialize_from(r1), LAMBDA o_offset, r2 :
             ReadAllocations(r2, child_seg_id, n - 1,
                 Append(acc, <<child_seg_id, <<Allocation(i_offset, o_offset)>>>>))))

\* the loop over child_segs_num
RECURSIVE ReadChildSegs(_, _, _)
ReadChildSegs(r, n, acc) ==
    IF n = 0 THEN Ok(acc, r)
    ELSE Bind(U64_deserialize_from(r), LAMBDA child_seg_id, r1 :
         Bind(U64_deserialize_from(r1), LAMBDA allocation_num, r2 :
         Bind(ReadAllocations(r2, child_seg_id, allocation_num, acc),
              LAMBDA pushed, r3 : ReadChildSegs(r3, n - 1, pushed))))

\* a loop pushing n gates read by Gate::read
RECURSIVE ReadGates(_, _, _, _)
ReadGates(INPUT_NUM, r, n, acc) ==
    IF n = 0 THEN Ok(acc, r)
    ELSE Bind(Gate_read(INPUT_NUM, r),
              LAMBDA gate, r1 : ReadGates(INPUT_NUM, r1, n - 1, Append(acc, gate)))

\* the GateUni built of a custom gate: only inputs[0] is kept, and indexing
\* an empty inputs panics
GateUniOf(gate_type, inputs, out, coef_type, coef, r) ==
    IF Len(inputs) = 0 THEN Panic(r)
    ELSE Ok([i_ids |-> <<inputs[1]>>, o_id |-> out, coef |-> coef,
             coef_type |-> coef_type, gate_type |-> gate_type], r)

\* one custom gate: gate_type, in_len, the inputs, out, the CoefType and
\* the coefficient of a Constant
ReadCustomGate(r) ==
    Bind(U64_deserialize_from(r), LAMBDA gate_type, r1 :
    Bind(U64_deserialize_from(r1), LAMBDA in_len, r2 :
    Bind(ReadIds(r2, in_len, <<>>), LAMBDA inputs, r3 :
    Bind(U64_deserialize_from(r3), LAMBDA out, r4 :
    Bind(CoefType_read(r4), LAMBDA coef_type, r5 :
    Bind(ReadCoef(coef_type, SimdZero, r5), LAMBDA coef, r6 :
        GateUniOf(gate_type, inputs, out, coef_type, coef, r6)))))))

RECURSIVE ReadCustomGates(_, _, _)
ReadCustomGates(r, n, acc) ==
    IF n = 0 THEN Ok(acc, r)
    ELSE Bind(ReadCustomGate(r),
              LAMBDA gate, r1 : ReadCustomGates(r1, n - 1, Append(acc, gate)))

\* a faulty size check that looks at i_len only
SizesAccepted_input_only(i_len, o_len) == is_power_of_two(i_len)

\* the two assertions on i_len and o_len
SizesAccepted(i_len, o_len) == is_power_of_two(i_len) /\ is_power_of_two(o_len)

\* assert!(cond) with the reader at r
Asserted(cond, r) == IF cond THEN Ok(TRUE, r) ELSE Panic(r)

Segment_read(r) ==
    Bind(U64_deserialize_from(r), LAMBDA i_len, r1 :
    Bind(U64_deserialize_from(r1), LAMBDA o_len, r2 :
    Bind(Asserted(SizesAccepted(i_len, o_len), r2), LAMBDA asserted, r3 :
    Bind(U64_deserialize_from(r3), LAMBDA child_segs_num, r4 :
    Bind(ReadChildSegs(r4, child_segs_num, <<>>), LAMBDA child_segs, r5 :
    Bind(U64_deserialize_from(r5), LAMBDA gate_muls_num, r6 :
    Bind(ReadGates(2, r6, gate_muls_num, <<>>), LAMBDA gate_muls, r7 :
    Bind(U64_deserialize_from(r7), LAMBDA gate_adds_num, r8 :
    Bind(ReadGates(1, r8, gate_adds_num, <<>>), LAMBDA gate_adds, r9 :
    Bind(U64_deserialize_from(r9), LAMBDA gate_consts_num, r10 :
    Bind(ReadGates(0, r10, gate_consts_num, <<>>), LAMBDA gate_csts, r11 :
    Bind(U64_deserialize_from(r11), LAMBDA gate_custom_num, r12 :
    Bind(ReadCustomGates(r12, gate_custom_num, <<>>), LAMBDA gate_unis, r13 :
        Ok([i_var_num |-> trailing_zeros(i_len),
            o_var_num |-> trailing_zeros(o_len),
            child_segs |-> child_segs, gate_muls |-> gate_muls,
            gate_adds |-> gate_adds, gate_csts |-> gate_csts,
            gate_unis |-> gate_unis], r13))))))))))))))

(***************************************************************************)
(* RecursiveCircuit::load (src/circuit/ecc_circuit.rs).                    *)
(***************************************************************************)
\* MAGIC_NUM = 3770719418566461763, as its eight little-endian bytes
\* (b"CIRCUIT4")
MAGIC_NUM == <<67, 73, 82, 67, 85, 73, 84, 52>>

\* the loop pushing segment_num segments read by Segment::read
RECURSIVE ReadSegments(_, _, _)
ReadSegments(r, n, acc) ==
    IF n = 0 THEN Ok(acc, r)
    ELSE Bind(Segment_read(r),
              LAMBDA seg, r1 : ReadSegments(r1, n - 1, Append(acc, seg)))

\* the loop pushing layer_num layer ids
ReadLayerIds(r, n, acc) == ReadIds(r, n, acc)

\* u64::deserialize_from, the value kept as its eight little-endian bytes
U64_bytes_deserialize_from(r) ==
    IF Len(r) < 8 THEN Panic(r) ELSE Ok(SubSeq(r, 1, 8), Drop(r, 8))

\* the magic number is compared; field_mod (four u64) and the three counters
\* are read and not used
RecursiveCircuit_load(file_bytes) ==
    Bind(U64_bytes_deserialize_from(file_bytes), LAMBDA magic_num, r1 :
    Bind(Asserted(magic_num = MAGIC_NUM, r1), LAMBDA asserted, r2 :
    Bind(ReadIds(r2, 4 + 3, <<>>), LAMBDA header, r3 :
    Bind(U64_deserialize_from(r3), LAMBDA segment_num, r4 :
    Bind(ReadSegments(r4, segment_num, <<>>), LAMBDA segments, r5 :
    Bind(U64_deserialize_from(r5), LAMBDA layer_num, r6 :
    Bind(ReadLayerIds(r6, layer_num, <<>>), LAMBDA layers, r7 :
        Ok([segments |-> segments, layers |-> layers], r7))))))))

(***************************************************************************)
(* Segment::scan_leaf_segments and RecursiveCircuit::flatten.              *)
(*                                                                         *)
(* A HashMap<SegmentId, Vec<Allocation>> is a function from its keys to    *)
(* sequences.  A scan returns [status, leaves]; status is "ok",            *)
(* "stack_overflow" (the recursion is deeper than the stack holds) or      *)
(* "panic" (an index past the end of rc.segments).                         *)
(***************************************************************************)
contain_gates(seg) ==
    \/ seg.gate_muls # <<>>
    \/ seg.gate_adds # <<>>
    \/ seg.gate_csts # <<>>
    \/ seg.gate_unis # <<>>

EmptyMap == [id \in {} |-> <<>>]

\* a faulty composition that keeps the child's own offset only
Compose_child_only(child_alloc, leaf_alloc) ==
    Allocation(child_alloc.i_offset, child_alloc.o_offset)

\* the allocations pushed for one leaf of one child: child_alloc outer,
\* leaf_alloc inner, the offsets added
Compose(child_alloc, leaf_alloc) ==
    Allocation(child_alloc.i_offset + leaf_alloc.i_offset,
               child_alloc.o_offset + leaf_alloc.o_offset)

RECURSIVE ComposeAll(_, _)
ComposeAll(child_allocs, leaf_allocs) ==
    IF child_allocs = <<>> THEN <<>>
    ELSE [k \in 1..Len(leaf_allocs) |-> Compose(Head(child_allocs), leaf_allocs[k])]
             \o ComposeAll(Tail(child_allocs), leaf_allocs)

\* a faulty merge that inserts the new allocations over those already there
MergeLeaves_overwrite(ret, leaves, child_allocs) ==
    [id \in DOMAIN ret \cup DOMAIN leaves |->
        IF id \in DOMAIN leaves THEN ComposeAll(child_allocs, leaves[id])
        ELSE ret[id]]

\* ret after the loop over the leaves of one child: entry(leaf).or_insert
\* and the pushes
MergeLeaves(ret, leaves, child_allocs) ==
    [id \in DOMAIN ret \cup DOMAIN leaves |->
        (IF id \in DOMAIN ret THEN ret[id] ELSE <<>>)
        \o (IF id \in DOMAIN leaves THEN ComposeAll(child_allocs, leaves[id])
            ELSE <<>>)]

RECURSIVE scan_leaf_segments(_, _, _)
RECURSIVE ScanChildSegs(_, _, _, _)

\* the loop over self.child_segs
ScanChildSegs(circuit, child_segs, ret, depth) ==
    IF child_segs = <<>> THEN [status |-> "ok", leaves |-> ret]
    ELSE LET child_seg_id == Head(child_segs)[1]
             child_allocs == Head(child_segs)[2]
         IN  IF child_seg_id >= Len(circuit.segments)
             THEN [status |-> "panic", leaves |-> ret]
             ELSE LET leaves == scan_leaf_segments(circuit, child_seg_id, depth + 1)
                  IN  IF leaves.status # "ok" THEN leaves
                      ELSE ScanChildSegs(circuit, Tail(child_segs),
                               MergeLeaves(ret, leaves.leaves, child_allocs), depth)

\* self is circuit.segments[cur_id]; depth is the number of calls below this one
scan_leaf_segments(circuit, cur_id, depth) ==
    IF depth >= StackLimit THEN [status |-> "stack_overflow", leaves |-> EmptyMap]
    ELSE LET self == circuit.segments[cur_id + 1]
             ret == IF contain_gates(self)
                    THEN [id \in {cur_id} |-> <<Allocation(0, 0)>>]
                    ELSE EmptyMap
         IN  ScanChildSegs(circuit, self.child_segs, ret, depth)

\* a gate cloned and shifted by an allocation
ShiftGate(gate, alloc) ==
    [gate EXCEPT !.i_ids = [k \in DOMAIN gate.i_ids |-> gate.i_ids[k] + alloc.i_offset],
                 !.o_id = gate.o_id + alloc.o_offset]

ShiftGates(gates, alloc) == [k \in 1..Len(gates) |-> ShiftGate(gates[k], alloc)]

EmptyLayer(i_var_num, o_var_num) ==
    [input_var_num |-> i_var_num, output_var_num |-> o_var_num,
     input_vals |-> <<>>, output_vals |-> <<>>,
     mul |-> <<>>, add |-> <<>>, const_ |-> <<>>, uni |-> <<>>]

\* the loop over leaf_allocs for one leaf segment
RECURSIVE PushAllocs(_, _, _)
PushAllocs(ret_layer, leaf_seg, leaf_allocs) ==
    IF leaf_allocs = <<>> THEN ret_layer
    ELSE PushAllocs(
             [ret_layer EXCEPT
                 !.mul = @ \o ShiftGates(leaf_seg.gate_muls, Head(leaf_allocs)),
                 !.add = @ \o ShiftGates(leaf_seg.gate_adds, Head(leaf_allocs)),
                 !.const_ = @ \o ShiftGates(leaf_seg.gate_csts, Head(leaf_allocs)),
                 !.uni = @ \o ShiftGates(leaf_seg.gate_unis, Head(leaf_allocs))],
             leaf_seg, Tail(leaf_allocs))

\* the loop over the HashMap leaves, order being the order the map iterates
\* its keys in
RECURSIVE PushLeaves(_, _, _, _)
PushLeaves(circuit, ret_layer, leaves, order) ==
    IF order = <<>> THEN ret_layer
    ELSE PushLeaves(circuit,
             PushAllocs(ret_layer, circuit.segments[Head(order) + 1], leaves[Head(order)]),
             leaves, Tail(order))

\* the keys of a map in the order of the sequence prio
KeyOrder(map, prio) == SelectSeq(prio, LAMBDA id : id \in DOMAIN map)

\* one iteration of the layer-by-layer conversion
FlattenLayer(circuit, layer_id, prio) ==
    IF layer_id >= Len(circuit.segments)
    THEN [status |-> "panic", layer |-> EmptyLayer(0, 0)]
    ELSE LET layer_seg == circuit.segments[layer_id + 1]
             leaves == scan_leaf_segments(circuit, layer_id, 0)
         IN  IF leaves.status # "ok"
             THEN [status |-> leaves.status, layer |-> EmptyLayer(0, 0)]
             ELSE [status |-> "ok",
                   layer |-> PushLeaves(circuit,
                                 EmptyLayer(layer_seg.i_var_num, layer_seg.o_var_num),
                                 leaves.leaves, KeyOrder(leaves.leaves, prio))]

RECURSIVE FlattenLayers(_, _, _, _)
FlattenLayers(circuit, k, prios, acc) ==
    IF k > Len(circuit.layers) THEN [status |-> "ok", layers |-> acc]
    ELSE LET ret_layer == FlattenLayer(circuit, circuit.layers[k], prios[k])
         IN  IF ret_layer.status # "ok"
             THEN [status |-> ret_layer.status, layers |-> acc]
             ELSE FlattenLayers(circuit, k + 1, prios, Append(acc, ret_layer.layer))

(***************************************************************************)
(* The special-coefficient index (src/circuit/expander_circuit.rs).        *)
(*                                                                         *)
(* A *mut SimdCircuitField is the place of a coefficient: the Circuit      *)
(* object obj whose gate storage holds it, the layer, the gate list and    *)
(* the position in the list.                                               *)
(***************************************************************************)
Ptr(obj, layer, list, pos) == [obj |-> obj, layer |-> layer, list |-> list, pos |-> pos]

GateList(layer, list) ==
    CASE list = "add" -> layer.add
      [] list = "mul" -> layer.mul
      [] list = "const_" -> layer.const_
      [] list = "uni" -> layer.uni

\* the gates of one list of a layer, as <<gate, pointer to its coef>>
ListSlots(obj, l, layer, list) ==
    [k \in 1..Len(GateList(layer, list)) |->
        <<GateList(layer, list)[k], Ptr(obj, l, list, k)>>]

\* the order CircuitLayer::identify_special_coefs visits the lists in
LayerSlots(obj, l, layer) ==
    ListSlots(obj, l, layer, "add") \o ListSlots(obj, l, layer, "mul")
        \o ListSlots(obj, l, layer, "const_") \o ListSlots(obj, l, layer, "uni")

RndOf(slots) ==
    LET sel == SelectSeq(slots, LAMBDA s : s[1].coef_type = Random)
    IN  [k \in 1..Len(sel) |-> sel[k][2]]

PubOf(slots) ==
    LET sel == SelectSeq(slots, LAMBDA s : s[1].coef_type.tag = "PublicInput")
    IN  [k \in 1..Len(sel) |-> <<sel[k][1].coef_type.idx, sel[k][2]>>]

\* CircuitLayer::identify_special_coefs on layer l of object obj: the
\* vectors with the layer's pointers pushed
Layer_identify_special_coefs(obj, l, layer, coefs) ==
    [rnd_coefs |-> coefs.rnd_coefs \o RndOf(LayerSlots(obj, l, layer)),
     pub_coefs |-> coefs.pub_coefs \o PubOf(LayerSlots(obj, l, layer))]

RECURSIVE IdentifyLayers(_, _, _, _)
IdentifyLayers(obj, layers, l, coefs) ==
    IF l > Len(layers) THEN coefs
    ELSE IdentifyLayers(obj, layers, l + 1,
             Layer_identify_special_coefs(obj, l, layers[l], coefs))

\* a faulty start that keeps what the vectors hold
ClearedCoefs_kept(self) == [rnd_coefs |-> self.rnd_coefs, pub_coefs |-> self.pub_coefs]

\* the vectors the loop over the layers starts from: both cleared
ClearedCoefs(self) == [rnd_coefs |-> <<>>, pub_coefs |-> <<>>]

\* Circuit::identify_special_coefs on the circuit self stored as object obj
identify_special_coefs(self, obj) ==
    LET coefs == IdentifyLayers(obj, self.layers, 1, ClearedCoefs(self))
    IN  [self EXCEPT !.rnd_coefs = coefs.rnd_coefs, !.pub_coefs = coefs.pub_coefs,
                     !.special_coefs_identified = TRUE]

\* Circuit::default()
Circuit_default ==
    [layers |-> <<>>, special_coefs_identified |-> FALSE,
     rnd_coefs |-> <<>>, pub_coefs |-> <<>>]

\* RecursiveCircuit::flatten, the circuit returned being stored as object obj;
\* prios[k] gives the order the k-th layer's HashMap iterates in
flatten(self, prios, obj) ==
    LET ret == FlattenLayers(self, 1, prios, <<>>)
    IN  IF ret.status # "ok" THEN [status |-> ret.status, circuit |-> Circuit_default]
        ELSE [status |-> "ok",
              circuit |-> identify_special_coefs(
                              [Circuit_default EXCEPT !.layers = ret.layers], obj)]

\* a faulty clone that copies the pointer vectors with the layers, as a
\* derived Clone would
Clone_derived(self, obj) ==
    [layers |-> self.layers,
     special_coefs_identified |-> self.special_coefs_identified,
     rnd_coefs |-> self.rnd_coefs, pub_coefs |-> self.pub_coefs]

\* impl Clone for Circuit: the clone is stored as object obj
Clone(self, obj) ==
    IF self.special_coefs_identified
    THEN identify_special_coefs(
             [layers |-> self.layers, special_coefs_identified |-> FALSE,
              rnd_coefs |-> <<>>, pub_coefs |-> <<>>], obj)
    ELSE [layers |-> self.layers, special_coefs_identified |-> FALSE,
          rnd_coefs |-> <<>>, pub_coefs |-> <<>>]

\* *ptr = v: the heap h with the coefficient at ptr set to v
WriteCoef(h, ptr, v) ==
    [h EXCEPT ![ptr.obj].layers[ptr.layer][ptr.list][ptr.pos].coef = v]

\* Transcript::circuit_f: the challenge drawn after t earlier draws
Challenge(t) == 100 + t

\* the result of a call on the heap: the heap and the transcript it leaves,
\* and the pointers it wrote through, in order
CallResult(status, h, t, writes) ==
    [status |-> status, heap |-> h, transcript |-> t, writes |-> writes]

\* a faulty loop that draws one challenge and writes it to every pointer
RECURSIVE FillRnd_one_draw(_, _, _, _)
FillRnd_one_draw(h, rnd_coefs, t, writes) ==
    IF rnd_coefs = <<>>
    THEN CallResult("ok", h, IF writes = <<>> THEN t ELSE t + 1, writes)
    ELSE FillRnd_one_draw(WriteCoef(h, Head(rnd_coefs), Broadcast(Challenge(t))),
                          Tail(rnd_coefs), t, Append(writes, Head(rnd_coefs)))

\* the loop of fill_rnd_coefs over self.rnd_coefs
RECURSIVE FillRnd(_, _, _, _)
FillRnd(h, rnd_coefs, t, writes) ==
    IF rnd_coefs = <<>> THEN CallResult("ok", h, t, writes)
    ELSE FillRnd(WriteCoef(h, Head(rnd_coefs), Broadcast(Challenge(t))),
                 Tail(rnd_coefs), t + 1, Append(writes, Head(rnd_coefs)))

\* Circuit::fill_rnd_coefs on object obj of the heap h
fill_rnd_coefs(h, obj, t) ==
    IF ~h[obj].special_coefs_identified THEN CallResult("panic", h, t, <<>>)
    ELSE FillRnd(h, h[obj].rnd_coefs, t, <<>>)

\* the loop of fill_pub_coefs over self.pub_coefs; public_inputs[idx] past
\* the end of the slice panics with the earlier writes done
RECURSIVE FillPub(_, _, _, _, _)
FillPub(h, pub_coefs, public_inputs, t, writes) ==
    IF pub_coefs = <<>> THEN CallResult("ok", h, t, writes)
    ELSE IF Head(pub_coefs)[1] >= Len(public_inputs)
    THEN CallResult("panic", h, t, writes)
    ELSE FillPub(WriteCoef(h, Head(pub_coefs)[2], public_inputs[Head(pub_coefs)[1] + 1]),
                 Tail(pub_coefs), public_inputs, t, Append(writes, Head(pub_coefs)[2]))

\* Circuit::fill_pub_coefs on object obj of the heap h
fill_pub_coefs(h, obj, public_inputs, t) ==
    IF ~h[obj].special_coefs_identified THEN CallResult("panic", h, t, <<>>)
    ELSE FillPub(h, h[obj].pub_coefs, public_inputs, t, <<>>)

\* a faulty packing that broadcasts the first row
vec_2d_to_vec_simd_first_row(vec2d) ==
    [i \in 1..Len(vec2d[1]) |-> Broadcast(vec2d[1][i])]

\* Circuit::vec_2d_to_vec_simd: element i packs vec2d[j][i] over the rows j
vec_2d_to_vec_simd(vec2d) ==
    [i \in 1..Len(vec2d[1]) |->
        FromScalarArray([j \in 1..Len(vec2d) |-> vec2d[j][i]])]

\* the two inner loops of load_witness_bytes for one witness
ReadWitness(r, num_inputs, num_public_inputs) ==
    Bind(ReadElems(r, num_inputs, <<>>), LAMBDA private, r1 :
    Bind(ReadElems(r1, num_public_inputs, <<>>), LAMBDA public, r2 :
        Ok([private |-> private, public |-> public], r2)))

\* the loop over the witnesses read
RECURSIVE ReadWitnesses(_, _, _, _, _)
ReadWitnesses(r, n, num_inputs, num_public_inputs, acc) ==
    IF n = 0 THEN Ok(acc, r)
    ELSE Bind(ReadWitness(r, num_inputs, num_public_inputs), LAMBDA witness, r1 :
             ReadWitnesses(r1, n - 1, num_inputs, num_public_inputs,
                           Append(acc, witness)))

min(a, b) == IF a < b THEN a ELSE b

\* private_inputs and public_inputs: simd_size rows, zero where no witness
\* was read
\* a faulty padding that repeats the first witness in the lanes no witness
\* was read for
PrivateRows_repeated(witnesses, num_inputs) ==
    [i \in 1..SIMD_SIZE |->
        IF i <= Len(witnesses) THEN witnesses[i].private
        ELSE IF witnesses = <<>> THEN Zeros(num_inputs) ELSE witnesses[1].private]

PrivateRows(witnesses, num_inputs) ==
    [i \in 1..SIMD_SIZE |->
        IF i <= Len(witnesses) THEN witnesses[i].private ELSE Zeros(num_inputs)]

PublicRows(witnesses, num_public_inputs) ==
    [i \in 1..SIMD_SIZE |->
        IF i <= Len(witnesses) THEN witnesses[i].public ELSE Zeros(num_public_inputs)]

\* the end of load_witness_bytes: the last statement indexes layers[0]
SetInputVals(res, obj, input_vals) ==
    IF res.status # "ok" THEN res
    ELSE IF res.heap[obj].layers = <<>> THEN [res EXCEPT !.status = "panic"]
    ELSE [res EXCEPT !.heap[obj].layers[1].input_vals = input_vals]

\* the header of the witness file: the three counters and field_mod
WitnessHeader(file_bytes) ==
    Bind(U64_deserialize_from(file_bytes), LAMBDA num_witnesses, r1 :
    Bind(U64_deserialize_from(r1), LAMBDA num_inputs_per_witness, r2 :
    Bind(U64_deserialize_from(r2), LAMBDA num_public_inputs_per_witness, r3 :
    Bind(ReadIds(r3, 4, <<>>), LAMBDA field_mod, r4 :
        Ok([num_witnesses |-> num_witnesses,
            num_inputs_per_witness |-> num_inputs_per_witness,
            num_public_inputs_per_witness |-> num_public_inputs_per_witness],
           r4)))))

\* the body of load_witness_bytes once the witnesses are read
BindWitnesses(h, obj, t, meta, witnesses) ==
    SetInputVals(
        fill_pub_coefs(h, obj,
            vec_2d_to_vec_simd(PublicRows(witnesses, meta.num_public_inputs_per_witness)),
            t),
        obj,
        vec_2d_to_vec_simd(PrivateRows(witnesses, meta.num_inputs_per_witness)))

\* the decoding part of load_witness_bytes: the meta data and the witnesses
WitnessFile(file_bytes) ==
    Bind(WitnessHeader(file_bytes), LAMBDA meta, r1 :
    Bind(ReadWitnesses(r1, min(meta.num_witnesses, SIMD_SIZE),
                       meta.num_inputs_per_witness,
                       meta.num_public_inputs_per_witness, <<>>),
         LAMBDA witnesses, r2 : Ok([meta |-> meta, witnesses |-> witnesses], r2)))

\* Circuit::load_witness_bytes on object obj of the heap h: a truncated
\* header panics, a field element that fails to decode returns Err
load_witness_bytes(h, obj, file_bytes, t) ==
    IF ~WitnessHeader(file_bytes).ok THEN CallResult("panic", h, t, <<>>)
    ELSE IF ~WitnessFile(file_bytes).ok THEN CallResult("err", h, t, <<>>)
    ELSE BindWitnesses(h, obj, t, WitnessFile(file_bytes).val.meta,
                       WitnessFile(file_bytes).val.witnesses)

(***************************************************************************)
(* Field arithmetic.  A field element is a residue modulo FieldOrder, a    *)
(* SIMD value has one residue per lane and every operation acts lane by    *)
(* lane.                                                                   *)
(***************************************************************************)
FAdd(a, b) == (a + b) % FieldOrder

FSub(a, b) == (a + FieldOrder - b) % FieldOrder

FMul(a, b) == (a * b) % FieldOrder

SimdAdd(x, y) == [k \in Lanes |-> FAdd(x[k], y[k])]

SimdSub(x, y) == [k \in Lanes |-> FSub(x[k], y[k])]

SimdMul(x, y) == [k \in Lanes |-> FMul(x[k], y[k])]

square(x) == SimdMul(x, x)

\* SimdField::scale: every lane times the challenge
scale(x, challenge) == [k \in Lanes |-> FMul(x[k], challenge)]

(***************************************************************************)
(* Circuit evaluation (src/circuit/expander_circuit.rs).                   *)
(***************************************************************************)
\* a faulty start of evaluate that resizes res without clearing it
ClearedRes_kept(res, n) ==
    [k \in 1..n |-> IF k <= Len(res) THEN res[k] ELSE SimdZero]

\* res.clear(); res.resize(1 << output_var_num, zero)
ClearedRes(res, n) == [k \in 1..n |-> SimdZero]

\* *o += v with o = &mut res[o_id]
AddTo(acc, o_id, v) == [acc EXCEPT !.res[o_id + 1] = SimdAdd(@, v)]

\* an index past the end of a vector panics
Indexable(vec, ids) == \A k \in DOMAIN ids : ids[k] < Len(vec)

\* the loop over self.mul
RECURSIVE EvalMul(_, _, _)
EvalMul(input_vals, gates, acc) ==
    IF acc.status # "ok" \/ gates = <<>> THEN acc
    ELSE IF ~Indexable(input_vals, Head(gates).i_ids)
             \/ Head(gates).o_id >= Len(acc.res)
    THEN [acc EXCEPT !.status = "panic"]
    ELSE EvalMul(input_vals, Tail(gates),
             AddTo(acc, Head(gates).o_id,
                   SimdMul(SimdMul(input_vals[Head(gates).i_ids[1] + 1],
                                   input_vals[Head(gates).i_ids[2] + 1]),
                           Head(gates).coef)))

\* the loop over self.add
RECURSIVE EvalAdd(_, _, _)
EvalAdd(input_vals, gates, acc) ==
    IF acc.status # "ok" \/ gates = <<>> THEN acc
    ELSE IF ~Indexable(input_vals, Head(gates).i_ids)
             \/ Head(gates).o_id >= Len(acc.res)
    THEN [acc EXCEPT !.status = "panic"]
    ELSE EvalAdd(input_vals, Tail(gates),
             AddTo(acc, Head(gates).o_id,
                   SimdMul(input_vals[Head(gates).i_ids[1] + 1], Head(gates).coef)))

\* the loop over self.const_
RECURSIVE EvalConst(_, _)
EvalConst(gates, acc) ==
    IF acc.status # "ok" \/ gates = <<>> THEN acc
    ELSE IF Head(gates).o_id >= Len(acc.res)
    THEN [acc EXCEPT !.status = "panic"]
    ELSE EvalConst(Tail(gates), AddTo(acc, Head(gates).o_id, Head(gates).coef))

\* a faulty x^5 that leaves out the last multiplication
pow5_two_squarings(i0) == square(square(i0))

\* gate_type 12345: two squarings, then a multiplication
pow5(i0) == SimdMul(square(square(i0)), i0)

\* the loop over self.uni: a gate_type other than 12345 and 12346 panics
RECURSIVE EvalUni(_, _, _)
EvalUni(input_vals, gates, acc) ==
    IF acc.status # "ok" \/ gates = <<>> THEN acc
    ELSE IF ~Indexable(input_vals, Head(gates).i_ids)
             \/ Head(gates).o_id >= Len(acc.res)
             \/ Head(gates).gate_type \notin {12345, 12346}
    THEN [acc EXCEPT !.status = "panic"]
    ELSE EvalUni(input_vals, Tail(gates),
             AddTo(acc, Head(gates).o_id,
                   SimdMul(IF Head(gates).gate_type = 12345
                           THEN pow5(input_vals[Head(gates).i_ids[1] + 1])
                           ELSE input_vals[Head(gates).i_ids[1] + 1],
                           Head(gates).coef)))

\* CircuitLayer::evaluate(&self, res): the status and the vector res holds
\* when it returns or panics
CircuitLayer_evaluate(self, res) ==
    EvalUni(self.input_vals, self.uni,
        EvalConst(self.const_,
            EvalAdd(self.input_vals, self.add,
                EvalMul(self.input_vals, self.mul,
                    [status |-> "ok",
                     res |-> ClearedRes(res, Pow2(self.output_var_num))]))))

\* a faulty loop that evaluates every layer on the input of the first one
RECURSIVE EvaluateLayers_first_input(_, _)
EvaluateLayers_first_input(self, i) ==
    IF i >= Len(self.layers) THEN [status |-> "ok", circuit |-> self]
    ELSE IF CircuitLayer_evaluate([self.layers[i] EXCEPT
                                      !.input_vals = self.layers[1].input_vals],
                                  self.layers[i + 1].input_vals).status # "ok"
    THEN [status |-> "panic", circuit |-> self]
    ELSE EvaluateLayers_first_input(
             [self EXCEPT !.layers[i + 1].input_vals =
                 CircuitLayer_evaluate([self.layers[i] EXCEPT
                                           !.input_vals = self.layers[1].input_vals],
                                       self.layers[i + 1].input_vals).res],
             i + 1)

\* the loop of Circuit::evaluate over the layers but the last: layer i is
\* evaluated into the input_vals of layer i + 1
RECURSIVE EvaluateLayers(_, _)
EvaluateLayers(self, i) ==
    IF i >= Len(self.layers) THEN [status |-> "ok", circuit |-> self]
    ELSE IF CircuitLayer_evaluate(self.layers[i], self.layers[i + 1].input_vals).status
                # "ok"
    THEN [status |-> "panic",
          circuit |-> [self EXCEPT !.layers[i + 1].input_vals =
                          CircuitLayer_evaluate(self.layers[i], @).res]]
    ELSE EvaluateLayers(
             [self EXCEPT !.layers[i + 1].input_vals =
                 CircuitLayer_evaluate(self.layers[i], @).res],
             i + 1)

\* the end of Circuit::evaluate: the last layer is evaluated into a new
\* vector, which becomes its output_vals
EvaluateLast(ret) ==
    IF ret.status # "ok" THEN ret
    ELSE IF CircuitLayer_evaluate(ret.circuit.layers[Len(ret.circuit.layers)], <<>>).status
                # "ok"
    THEN [ret EXCEPT !.status = "panic"]
    ELSE [ret EXCEPT !.circuit.layers[Len(ret.circuit.layers)].output_vals =
             CircuitLayer_evaluate(ret.circuit.layers[Len(ret.circuit.layers)], <<>>).res]

\* Circuit::evaluate on object obj of the heap h; without layers,
\* self.layers.len() - 1 underflows and the call panics
Circuit_evaluate(h, obj, t) ==
    IF h[obj].layers = <<>> THEN CallResult("panic", h, t, <<>>)
    ELSE CallResult(EvaluateLast(EvaluateLayers(h[obj], 1)).status,
                    [h EXCEPT ![obj] = EvaluateLast(EvaluateLayers(h[obj], 1)).circuit],
                    t, <<>>)

\* Circuit::set_random_input_for_test on object obj, input_vals being the
\* values the generator yields
set_random_input_for_test(h, obj, input_vals, t) ==
    IF h[obj].layers = <<>> THEN CallResult("panic", h, t, <<>>)
    ELSE CallResult("ok", [h EXCEPT ![obj].layers[1].input_vals = input_vals], t, <<>>)

(***************************************************************************)
(* Encoders of the inputs: the bytes a circuit compiler writes.            *)
(***************************************************************************)
\* a u64, little-endian (values below 65536)
U64Bytes(v) == <<v % 256, (v \div 256) % 256, 0, 0, 0, 0, 0, 0>>

\* a field element in ECC format: four bytes of value and 28 zero bytes
EccBytes(v) == <<v % 256, (v \div 256) % 256, 0, 0>> \o Zeros(28)

RECURSIVE U64sBytes(_)
U64sBytes(vs) == IF vs = <<>> THEN <<>> ELSE U64Bytes(Head(vs)) \o U64sBytes(Tail(vs))

\* a CoefType and its payload
ConstantBytes(v) == <<1>> \o EccBytes(v)
RandomBytes == <<2>>
PublicInputBytes(i) == <<3>> \o U64Bytes(i)

\* a mul, add or const gate
GateBytes(i_ids, o_id, coef) == U64sBytes(i_ids) \o U64Bytes(o_id) \o coef

\* a custom gate
CustomGateBytes(gate_type, inputs, out, coef) ==
    U64Bytes(gate_type) \o U64Bytes(Len(inputs)) \o U64sBytes(inputs)
        \o U64Bytes(out) \o coef

\* a count and the items
CountedBytes(items) == U64Bytes(Len(items)) \o Concat(items)

AllocationBytes(a) == U64Bytes(a[1]) \o U64Bytes(a[2])

\* a child: its id and its allocations <<i_offset, o_offset>>
ChildBytes(c) ==
    U64Bytes(c[1]) \o CountedBytes([k \in 1..Len(c[2]) |-> AllocationBytes(c[2][k])])

\* a segment record [i_len, o_len, children, muls, adds, csts, unis]
SegmentBytes(seg) ==
    U64Bytes(seg.i_len) \o U64Bytes(seg.o_len)
        \o CountedBytes([k \in 1..Len(seg.children) |-> ChildBytes(seg.children[k])])
        \o CountedBytes(seg.muls) \o CountedBytes(seg.adds)
        \o CountedBytes(seg.csts) \o CountedBytes(seg.unis)

\* a circuit file: the magic number, field_mod, the three counters, the
\* segments and the layers
CircuitBytes(magic, segs, layers) ==
    magic \o Zeros(32) \o U64sBytes(<<1, 1, 0>>)
        \o CountedBytes([k \in 1..Len(segs) |-> SegmentBytes(segs[k])])
        \o U64Bytes(Len(layers)) \o U64sBytes(layers)

(***************************************************************************)
(* The decoders as operations on a stream: SpecRead.                       *)
(***************************************************************************)
NoCall == [op |-> "none", k |-> 0, input |-> <<>>, ok |-> TRUE, val |-> 0, rest |-> <<>>]

NoCircuit == [segments |-> <<>>, layers |-> <<>>]

\* no prover has been set up
NoProver == [at |-> "none"]

NoLog ==
    [op |-> "none", obj |-> 0, input |-> <<>>, status |-> "ok", writes |-> <<>>,
     before |-> <<>>, drawn |-> 0, n |-> 0, prev |-> "none"]

\* what may follow a gate's wire indices: the CoefType byte and its payload,
\* well formed or not
CoefTails ==
    {<<1>> \o EccBytes(v) : v \in {0, 3, 259}}
    \cup {<<1>> \o Zeros(31), <<1>> \o Zeros(8) \o <<1>> \o Zeros(23)}
    \cup {<<2>>, <<2>> \o EccBytes(3), <<2>> \o U64Bytes(1)}
    \cup {<<3>> \o U64Bytes(i) : i \in {0, 1, 300}}
    \cup {<<3>>, <<3, 1, 0>>, <<0>>, <<4>> \o U64Bytes(1), <<255>>, <<>>}

\* the inputs of Gate::read for INPUT_NUM = k: k + 1 wire indices, the
\* CoefType and its payload, and what may follow the gate in the stream
GateStreams(k) ==
    {U64sBytes(ids) \o t \o x :
        ids \in {i \in {<<1>>, <<258>>, <<2, 1>>, <<0, 257, 1>>, <<3, 0, 2>>} :
                    Len(i) = k + 1},
        t \in CoefTails, x \in {<<>>, <<2>>}}

\* the counters and payload after i_len and o_len
SegmentBodies ==
    {U64sBytes(<<0, 0, 0, 0, 0>>),
     U64sBytes(<<1, 0, 2, 0, 0, 2, 1>>) \o U64sBytes(<<0>>)
        \o U64sBytes(<<1, 1, 0>>) \o <<2>> \o U64sBytes(<<0, 0>>),
     U64sBytes(<<0, 0, 0, 1, 1>>) \o <<1>> \o EccBytes(3)
        \o U64sBytes(<<1, 12345, 2, 1, 0, 1>>) \o <<3>> \o U64sBytes(<<1>>),
     U64sBytes(<<0, 0, 0, 0, 1, 12346, 0, 0>>) \o <<2>>,
     U64sBytes(<<0, 0>>),
     <<>>}

SegmentStreams ==
    {U64Bytes(i_len) \o U64Bytes(o_len) \o b :
        i_len \in {0, 1, 2, 3, 4, 6, 8, 256}, o_len \in {0, 1, 2, 5, 512},
        b \in SegmentBodies}

ReadStreams ==
    CoefTails \cup GateStreams(0) \cup GateStreams(1) \cup GateStreams(2)
        \cup SegmentStreams

InitRead ==
    /\ pc = "run"
    /\ reader \in ReadStreams
    /\ last = NoCall
    /\ rc = NoCircuit
    /\ heap = <<>>
    /\ transcript = 0
    /\ log = NoLog
    /\ prover = NoProver

\* a decoder call on the reader: the reader moves to where the decoder
\* stopped, and a panic aborts the process
Decode(op, k, res) ==
    /\ pc = "run"
    /\ last' = [op |-> op, k |-> k, input |-> reader, ok |-> res.ok,
                val |-> res.val, rest |-> res.rest]
    /\ reader' = res.rest
    /\ pc' = IF res.ok THEN "run" ELSE "panic"
    /\ UNCHANGED <<rc, heap, transcript, log, prover>>

CallCoefTypeRead ==
    /\ reader \in CoefTails
    /\ Decode("CoefType::read", 0, CoefType_read(reader))

CallGateRead ==
    \E k \in 0..2 :
        /\ reader \in GateStreams(k)
        /\ Decode("Gate::read", k, Gate_read(k, reader))

CallSegmentRead ==
    /\ reader \in SegmentStreams
    /\ Decode("Segment::read", 0, Segment_read(reader))

NextRead == CallCoefTypeRead \/ CallGateRead \/ CallSegmentRead

SpecRead == InitRead /\ [][NextRead]_vars

(***************************************************************************)
(* C5.  CoefType::read decodes one byte: 1 is Constant, 2 is Random with   *)
(* no payload, 3 is PublicInput(i) with i the u64 that follows, and any    *)
(* other byte (or none) aborts.  A gate read as Random or PublicInput      *)
(* keeps the SIMD zero coefficient and consumes no field element; a gate   *)
(* read as Constant consumes one field element and has it in every lane.   *)
(***************************************************************************)
\* what the CoefType byte at the head of tail must give, for a decoder
\* call that returned ok, val (a CoefType) and rest
CoefTypeDecoded(tail, ok, val, rest) ==
    LET byte == IF tail = <<>> THEN 0 ELSE tail[1]
    IN  CASE byte = 1 -> ok /\ val = Constant /\ rest = Drop(tail, 1)
          [] byte = 2 -> ok /\ val = Random /\ rest = Drop(tail, 1)
          [] byte = 3 ->
                IF Len(tail) >= 9
                THEN /\ ok
                     /\ val = PublicInput(LittleEndian(Drop(tail, 1), 8))
                     /\ rest = Drop(tail, 9)
                ELSE ~ok
          [] OTHER -> ~ok

\* the same for a whole gate, tail being the stream after its wire indices
GateCoefDecoded(tail, ok, gate, rest) ==
    LET byte == IF tail = <<>> THEN 0 ELSE tail[1]
        elem == Drop(tail, 1)
        wellFormed == Len(elem) >= 32 /\ \A k \in 5..32 : elem[k] = 0
    IN  CASE byte = 1 ->
                IF wellFormed
                THEN /\ ok
                     /\ gate.coef_type = Constant
                     /\ \A l \in Lanes : gate.coef[l] = LittleEndian(elem, 4)
                     /\ rest = Drop(tail, 33)
                ELSE ~ok
          [] byte \in {2, 3} ->
                /\ CoefTypeDecoded(tail, ok, gate.coef_type, rest)
                /\ ok => \A l \in Lanes : gate.coef[l] = 0
          [] OTHER -> ~ok

C5_CoefTypeDecoding ==
    /\ last.op = "CoefType::read" =>
          CoefTypeDecoded(last.input, last.ok, last.val, last.rest)
    /\ (last.op = "Gate::read" /\ Len(last.input) >= 8 * (last.k + 1)) =>
          GateCoefDecoded(Drop(last.input, 8 * (last.k + 1)), last.ok,
                          last.val, last.rest)

\* a gate was read as PublicInput(i), i > 0, with bytes left unread
C5_Witness ==
    /\ last.op = "Gate::read"
    /\ last.ok
    /\ last.val.coef_type.tag = "PublicInput"
    /\ last.val.coef_type.idx > 0
    /\ last.val.coef = SimdZero

(***************************************************************************)
(* C6.  Segment::read accepts a record only if i_len and o_len are both    *)
(* powers of two; otherwise it aborts having read nothing after o_len.     *)
(* Of an accepted record 2^i_var_num = i_len and 2^o_var_num = o_len.      *)
(***************************************************************************)
IsPowerOfTwo(x) == \E k \in 0..30 : x = Pow2(k)

C6_SegmentSizes ==
    (last.op = "Segment::read" /\ Len(last.input) >= 16) =>
        LET i_len == LittleEndian(last.input, 8)
            o_len == LittleEndian(Drop(last.input, 8), 8)
        IN  /\ ~(IsPowerOfTwo(i_len) /\ IsPowerOfTwo(o_len)) =>
                  ~last.ok /\ last.rest = Drop(last.input, 16)
            /\ last.ok =>
                  /\ Pow2(last.val.i_var_num) = i_len
                  /\ Pow2(last.val.o_var_num) = o_len

\* a record with sizes 8 and 2, children and gates was accepted
C6_Witness ==
    /\ last.op = "Segment::read"
    /\ last.ok
    /\ last.val.i_var_num = 3
    /\ last.val.o_var_num = 1
    /\ last.val.child_segs # <<>>
    /\ last.val.gate_adds # <<>>

(***************************************************************************)
(* Loading and flattening circuit files: SpecFlatten.                      *)
(***************************************************************************)
Gates(muls, adds, csts, unis) == [muls |-> muls, adds |-> adds, csts |-> csts, unis |-> unis]

SegmentRecord(i_len, o_len, children, gates) ==
    [i_len |-> i_len, o_len |-> o_len, children |-> children, muls |-> gates.muls,
     adds |-> gates.adds, csts |-> gates.csts, unis |-> gates.unis]

NoGates == Gates(<<>>, <<>>, <<>>, <<>>)
OneAdd == Gates(<<>>, <<GateBytes(<<1>>, 0, ConstantBytes(3))>>, <<>>, <<>>)
MulAndCst ==
    Gates(<<GateBytes(<<0, 1>>, 1, ConstantBytes(1))>>, <<>>,
          <<GateBytes(<<>>, 0, ConstantBytes(2))>>, <<>>)
UniAndAdd ==
    Gates(<<>>, <<GateBytes(<<0>>, 0, PublicInputBytes(0))>>, <<>>,
          <<CustomGateBytes(12345, <<0>>, 1, RandomBytes)>>)
AddHigh == Gates(<<>>, <<GateBytes(<<2>>, 3, ConstantBytes(1))>>, <<>>, <<>>)
CstHigh == Gates(<<>>, <<>>, <<GateBytes(<<>>, 7, RandomBytes)>>, <<>>)

\* the segment records a file may hold at position n (the segment id):
\* segment 0 is a leaf of 2 inputs and 2 outputs (or refers to itself, or to
\* segment 1), segment 1 has 4 and 4 and instantiates segment 0, segment 2
\* has 8 and 8 and instantiates segments 1 and 0 (or itself, or a segment
\* that does not exist)
SegmentRecords(n) ==
    CASE n = 0 ->
            {SegmentRecord(2, 2, <<>>, g) : g \in {NoGates, OneAdd, MulAndCst, UniAndAdd}}
            \cup {SegmentRecord(2, 2, <<<<c, <<<<0, 0>>>>>>>>, OneAdd) : c \in {0, 1}}
      [] n = 1 ->
            {SegmentRecord(4, 4, c, g) :
                c \in {<<>>, <<<<0, <<<<0, 0>>>>>>>>, <<<<0, <<<<3, 1>>>>>>>>,
                       <<<<0, <<<<0, 0>>, <<2, 2>>>>>>>>},
                g \in {NoGates, AddHigh}}
      [] n = 2 ->
            {SegmentRecord(8, 8, c, g) :
                c \in {<<<<1, <<<<4, 4>>>>>>>>,
                       <<<<1, <<<<0, 0>>>>>>, <<0, <<<<6, 6>>>>>>>>,
                       <<<<1, <<<<0, 0>>, <<4, 4>>>>>>, <<1, <<<<0, 0>>>>>>>>,
                       <<<<3, <<<<0, 0>>>>>>>>},
                g \in {NoGates, CstHigh}}
            \cup {SegmentRecord(8, 8, <<<<1, <<<<0, 0>>>>>>, <<2, <<<<0, 0>>>>>>>>, NoGates)}
      [] OTHER -> {}

\* the segment lists of the files: segments 0 to n - 1, for every n
RECURSIVE SegmentListsFrom(_)
SegmentListsFrom(n) ==
    IF SegmentRecords(n) = {} THEN {<<>>}
    ELSE {<<>>} \cup {<<seg>> \o rest : seg \in SegmentRecords(n),
                                        rest \in SegmentListsFrom(n + 1)}

\* the layers of a file of n segments: up to MaxLayers segment ids, or the
\* one id past the last segment
LayerLists(n) ==
    UNION {[1..len -> 0..(n - 1)] : len \in 0..MaxLayers} \cup {<<n>>}

CircuitFiles ==
    {[magic |-> MAGIC_NUM, segs |-> segs, layers |-> layers] :
        segs \in SegmentListsFrom(0), layers \in LayerLists(3)}

FileBytes(f) == CircuitBytes(f.magic, f.segs, f.layers)

InitLoad ==
    /\ pc = "start"
    /\ reader = <<>>
    /\ last = NoCall
    /\ rc = NoCircuit
    /\ heap = <<>>
    /\ transcript = 0
    /\ log = NoLog
    /\ prover = NoProver

\* RecursiveCircuit::load on a file of the set files
CallLoad(files) ==
    /\ pc = "start"
    /\ \E f \in files :
          /\ f.layers \in LayerLists(Len(f.segs))
          /\ LET res == RecursiveCircuit_load(FileBytes(f))
             IN  /\ rc' = IF res.ok THEN res.val ELSE rc
                 /\ pc' = IF res.ok THEN "loaded" ELSE "panic"
    /\ UNCHANGED <<reader, last, heap, transcript, log, prover>>

\* the orders a HashMap of the keys S may iterate in
IterationOrders(S) ==
    {p \in [1..Cardinality(S) -> S] : \A i, j \in 1..Cardinality(S) : i # j => p[i] # p[j]}

\* the keys of the HashMap the k-th layer's scan returns
LayerKeys(circuit, k) ==
    IF circuit.layers[k] >= Len(circuit.segments) THEN {}
    ELSE LET leaves == scan_leaf_segments(circuit, circuit.layers[k], 0)
         IN  IF leaves.status = "ok" THEN DOMAIN leaves.leaves ELSE {}

RECURSIVE LayerOrders(_, _)
LayerOrders(circuit, k) ==
    IF k > Len(circuit.layers) THEN {<<>>}
    ELSE {<<o>> \o rest : o \in IterationOrders(LayerKeys(circuit, k)),
                          rest \in LayerOrders(circuit, k + 1)}

\* RecursiveCircuit::flatten; the circuit returned is object 1, the template
CallFlatten ==
    /\ pc = "loaded"
    /\ \E prios \in LayerOrders(rc, 1) :
          LET res == flatten(rc, prios, 1)
          IN  /\ heap' = IF res.status = "ok" THEN <<res.circuit>> ELSE heap
              /\ pc' = IF res.status = "ok" THEN "flat" ELSE res.status
    /\ UNCHANGED <<reader, last, rc, transcript, log, prover>>

NextFlatten == CallLoad(CircuitFiles) \/ CallFlatten

SpecFlatten == InitLoad /\ [][NextFlatten]_vars

(***************************************************************************)
(* The instantiations of a layer's root segment, by the paths of the       *)
(* child_segs graph.  A step <<k, a>> of a path takes allocation a of      *)
(* entry k of the child_segs of the segment it leaves.                     *)
(***************************************************************************)
SegAt(circuit, id) == circuit.segments[id + 1]

Steps(circuit, id) ==
    UNION {{<<k, a>> : a \in 1..Len(SegAt(circuit, id).child_segs[k][2])} :
              k \in 1..Len(SegAt(circuit, id).child_segs)}

StepChild(circuit, id, s) == SegAt(circuit, id).child_segs[s[1]][1]

StepAlloc(circuit, id, s) == SegAt(circuit, id).child_segs[s[1]][2][s[2]]

\* the paths of at most d steps that leave segment id
RECURSIVE Paths(_, _, _)
Paths(circuit, id, d) ==
    {<<>>} \cup
    (IF d = 0 THEN {}
     ELSE UNION {{<<s>> \o p : p \in Paths(circuit, StepChild(circuit, id, s), d - 1)} :
                    s \in Steps(circuit, id)})

\* every path of an acyclic graph is shorter than the number of segments
AllPaths(circuit, id) == Paths(circuit, id, Len(circuit.segments))

RECURSIVE PathEnd(_, _, _)
PathEnd(circuit, id, p) ==
    IF p = <<>> THEN id
    ELSE PathEnd(circuit, StepChild(circuit, id, Head(p)), Tail(p))

\* the sums of the i_offsets and of the o_offsets along a path
RECURSIVE PathOffsetI(_, _, _)
PathOffsetI(circuit, id, p) ==
    IF p = <<>> THEN 0
    ELSE StepAlloc(circuit, id, Head(p)).i_offset
            + PathOffsetI(circuit, StepChild(circuit, id, Head(p)), Tail(p))

RECURSIVE PathOffsetO(_, _, _)
PathOffsetO(circuit, id, p) ==
    IF p = <<>> THEN 0
    ELSE StepAlloc(circuit, id, Head(p)).o_offset
            + PathOffsetO(circuit, StepChild(circuit, id, Head(p)), Tail(p))

GateKinds == {"mul", "add", "const_", "uni"}

SegGateList(seg, kind) ==
    CASE kind = "mul" -> seg.gate_muls
      [] kind = "add" -> seg.gate_adds
      [] kind = "const_" -> seg.gate_csts
      [] kind = "uni" -> seg.gate_unis

\* the gate instances of a kind under a root: gate j of the segment path p ends at
Instances(circuit, root, kind) ==
    UNION {{<<p, j>> : j \in 1..Len(SegGateList(SegAt(circuit, PathEnd(circuit, root, p)), kind))} :
              p \in AllPaths(circuit, root)}

\* the gate an instance stands for in the flat layer
InstanceGate(circuit, root, kind, inst) ==
    LET g == SegGateList(SegAt(circuit, PathEnd(circuit, root, inst[1])), kind)[inst[2]]
    IN  [i_ids |-> [m \in DOMAIN g.i_ids |->
                       g.i_ids[m] + PathOffsetI(circuit, root, inst[1])],
         o_id |-> g.o_id + PathOffsetO(circuit, root, inst[1]),
         coef |-> g.coef, coef_type |-> g.coef_type, gate_type |-> g.gate_type]

\* the number of places of a sequence that hold v
Occurrences(seq, v) == Cardinality({k \in 1..Len(seq) : seq[k] = v})

Range(seq) == {seq[k] : k \in 1..Len(seq)}

Flat == heap[1]

(***************************************************************************)
(* C1.  In every layer flatten produced, every gate input index is below   *)
(* 2^input_var_num and every gate output index is below                    *)
(* 2^output_var_num of the layer.                                          *)
(***************************************************************************)
GateInRange(layer, g) ==
    /\ \A m \in DOMAIN g.i_ids : g.i_ids[m] < Pow2(layer.input_var_num)
    /\ g.o_id < Pow2(layer.output_var_num)

C1_IndicesInRange ==
    pc = "flat" =>
        \A k \in 1..Len(Flat.layers) : \A kind \in GateKinds :
            \A g \in Range(GateList(Flat.layers[k], kind)) :
                GateInRange(Flat.layers[k], g)

(***************************************************************************)
(* C2.  Flattening preserves the gate count: of every layer and gate kind, *)
(* the flat layer holds as many gates as the instantiations reachable from *)
(* the layer's root segment hold together.                                 *)
(***************************************************************************)
C2_GateCountPreserved ==
    pc = "flat" =>
        /\ Len(Flat.layers) = Len(rc.layers)
        /\ \A k \in 1..Len(rc.layers) : \A kind \in GateKinds :
              Len(GateList(Flat.layers[k], kind))
                  = Cardinality(Instances(rc, rc.layers[k], kind))

\* a layer of segment 2 was flattened whose leaf is instantiated six times
\* along paths of two steps, with gates of two kinds
C2_Witness ==
    /\ pc = "flat"
    /\ \E k \in 1..Len(rc.layers) :
          /\ rc.layers[k] = 2
          /\ Len(Flat.layers[k].mul) >= 6
          /\ Len(Flat.layers[k].const_) >= 6
          /\ \E p \in AllPaths(rc, 2) : Len(p) = 2

(***************************************************************************)
(* C3.  The scan of a root records, for every segment that contains gates, *)
(* one allocation per path from the root to it, with the offsets summed    *)
(* along the path (the root itself at (0, 0)), and records no segment      *)
(* without gates; the flat layer holds, for every such path and every gate *)
(* of the segment, the gate with its input indices shifted by the          *)
(* i_offset and its output index by the o_offset.                          *)
(***************************************************************************)
ScanMatchesPaths(circuit, root) ==
    LET scan == scan_leaf_segments(circuit, root, 0)
        ends == {p \in AllPaths(circuit, root) :
                    contain_gates(SegAt(circuit, PathEnd(circuit, root, p)))}
    IN  scan.status = "ok" =>
            /\ DOMAIN scan.leaves = {PathEnd(circuit, root, p) : p \in ends}
            /\ \A id \in DOMAIN scan.leaves :
                  \A a \in Range(scan.leaves[id])
                            \cup {Allocation(PathOffsetI(circuit, root, p),
                                             PathOffsetO(circuit, root, p)) : p \in ends} :
                      Occurrences(scan.leaves[id], a)
                          = Cardinality({p \in ends :
                                /\ PathEnd(circuit, root, p) = id
                                /\ PathOffsetI(circuit, root, p) = a.i_offset
                                /\ PathOffsetO(circuit, root, p) = a.o_offset})

LayerMatchesPaths(circuit, root, layer) ==
    \A kind \in GateKinds :
        LET insts == Instances(circuit, root, kind)
        IN  \A g \in Range(GateList(layer, kind))
                      \cup {InstanceGate(circuit, root, kind, inst) : inst \in insts} :
                Occurrences(GateList(layer, kind), g)
                    = Cardinality({inst \in insts :
                                      InstanceGate(circuit, root, kind, inst) = g})

C3_OffsetsCompose ==
    pc = "flat" =>
        \A k \in 1..Len(rc.layers) :
            /\ ScanMatchesPaths(rc, rc.layers[k])
            /\ LayerMatchesPaths(rc, rc.layers[k], Flat.layers[k])

\* a root with gates of its own, and a leaf under it along a path of two
\* steps that both shift: the leaf's gate lies in the layer shifted by 4 + 2
C3_Witness ==
    /\ pc = "flat"
    /\ \E k \in 1..Len(rc.layers) :
          /\ rc.layers[k] = 2
          /\ contain_gates(SegAt(rc, 2))
          /\ \E p \in AllPaths(rc, 2) :
                /\ Len(p) = 2
                /\ PathEnd(rc, 2, p) = 0
                /\ PathOffsetI(rc, 2, p) = 6
                /\ StepAlloc(rc, 2, p[1]).i_offset = 4
          /\ \E g \in Range(Flat.layers[k].add) : g.i_ids[1] >= 6

(***************************************************************************)
(* C4.  Flattening is bounded: the expansion of the child segments never   *)
(* recurses until the stack is exhausted, whatever the child_seg_id        *)
(* references of the file.                                                 *)
(***************************************************************************)
C4_ExpansionBounded == pc # "stack_overflow"

(***************************************************************************)
(* The driver's calls on loaded circuits: SpecCoefs.                       *)
(***************************************************************************)
\* a segment with a gate of every kind and coefficients of every type
Mixed ==
    Gates(<<GateBytes(<<0, 1>>, 1, ConstantBytes(5))>>,
          <<GateBytes(<<1>>, 0, PublicInputBytes(1))>>,
          <<GateBytes(<<>>, 0, RandomBytes), GateBytes(<<>>, 1, ConstantBytes(2))>>,
          <<CustomGateBytes(12346, <<0>>, 1, PublicInputBytes(0))>>)

\* the circuit files of the driver: one layer of every coefficient type; two
\* layers, the first of a segment instantiated twice; a file of Constant
\* coefficients only; a file without layers
CoefFiles ==
    {[magic |-> MAGIC_NUM, segs |-> <<SegmentRecord(2, 2, <<>>, Mixed)>>, layers |-> <<0>>],
     [magic |-> MAGIC_NUM,
      segs |-> <<SegmentRecord(2, 2, <<>>, UniAndAdd),
                 SegmentRecord(4, 4, <<<<0, <<<<0, 0>>, <<2, 2>>>>>>>>, NoGates)>>,
      layers |-> <<1, 0>>],
     [magic |-> MAGIC_NUM, segs |-> <<SegmentRecord(2, 2, <<>>, MulAndCst)>>,
      layers |-> <<0>>],
     [magic |-> MAGIC_NUM, segs |-> <<SegmentRecord(2, 2, <<>>, UniAndAdd)>>,
      layers |-> <<>>]}

\* a witness file: the header and, for every witness, its private and its
\* public inputs
WitnessBytes(num_witnesses, num_inputs, num_public_inputs, elems) ==
    U64sBytes(<<num_witnesses, num_inputs, num_public_inputs, 0, 0, 0, 0>>)
        \o Concat([k \in 1..Len(elems) |-> EccBytes(elems[k])])

\* the witness files of the driver: one, two and three witnesses of one
\* private input and up to two public inputs, a file cut short in an
\* element and one cut short in the header
WitnessFiles ==
    {WitnessBytes(1, 1, 2, <<9, 7, 8>>),
     WitnessBytes(2, 1, 2, <<9, 7, 8, 6, 3, 4>>),
     WitnessBytes(2, 1, 1, <<9, 7, 6, 7>>),
     WitnessBytes(3, 1, 2, <<9, 7, 8, 6, 3, 4, 2, 1, 5>>),
     WitnessBytes(2, 1, 0, <<9, 6>>),
     SubSeq(WitnessBytes(2, 1, 2, <<9, 7, 8, 6, 3, 4>>), 1, 56 + 5 * 32 + 7),
     U64sBytes(<<2, 1>>)}

\* the slices the driver hands to fill_pub_coefs
PublicInputSlices ==
    {<<>>, <<Broadcast(7)>>, <<Broadcast(7), Broadcast(8)>>}

Call(op, obj, input, status, writes) ==
    [op |-> op, obj |-> obj, input |-> input, status |-> status, writes |-> writes,
     before |-> heap, drawn |-> transcript, n |-> log.n + 1, prev |-> log.op]

\* a call on the heap that returned res: a panic ends the process
HeapCall(op, obj, input, res) ==
    /\ heap' = res.heap
    /\ transcript' = res.transcript
    /\ log' = Call(op, obj, input, res.status, res.writes)
    /\ pc' = IF res.status = "panic" THEN "panic" ELSE "ready"
    /\ UNCHANGED <<reader, last, rc, prover>>

\* Circuit::load_circuit: load, then flatten; the circuit is object 1
CallLoadCircuit ==
    /\ pc = "start"
    /\ \E f \in CoefFiles :
          \E prios \in LayerOrders(RecursiveCircuit_load(FileBytes(f)).val, 1) :
              /\ rc' = RecursiveCircuit_load(FileBytes(f)).val
              /\ heap' = <<flatten(RecursiveCircuit_load(FileBytes(f)).val, prios, 1).circuit>>
              /\ log' = Call("load_circuit", 1, FileBytes(f), "ok", <<>>)
    /\ pc' = "ready"
    /\ UNCHANGED <<reader, last, transcript, prover>>

\* a circuit put together by hand, as the tests do: Circuit::default() and
\* layers pushed, the coefficients not identified
CallBuild ==
    /\ pc = "start"
    /\ \E f \in CoefFiles :
          \E prios \in LayerOrders(RecursiveCircuit_load(FileBytes(f)).val, 1) :
              /\ heap' = <<[Circuit_default EXCEPT !.layers =
                               FlattenLayers(RecursiveCircuit_load(FileBytes(f)).val,
                                             1, prios, <<>>).layers]>>
              /\ log' = Call("build", 1, FileBytes(f), "ok", <<>>)
    /\ pc' = "ready"
    /\ UNCHANGED <<reader, last, rc, transcript, prover>>

\* circuit.clone(): the clone is a new object of the heap
CallClone ==
    /\ pc = "ready"
    /\ log.n < MaxCalls
    /\ \E src \in 1..Len(heap) :
          HeapCall("clone", src, <<>>,
                   CallResult("ok", Append(heap, Clone(heap[src], Len(heap) + 1)),
                              transcript, <<>>))

CallIdentify ==
    /\ pc = "ready"
    /\ log.n < MaxCalls
    /\ \E obj \in 1..Len(heap) :
          HeapCall("identify_special_coefs", obj, <<>>,
                   CallResult("ok", [heap EXCEPT ![obj] = identify_special_coefs(@, obj)],
                              transcript, <<>>))

CallFillRnd ==
    /\ pc = "ready"
    /\ log.n < MaxCalls
    /\ \E obj \in 1..Len(heap) :
          HeapCall("fill_rnd_coefs", obj, <<>>, fill_rnd_coefs(heap, obj, transcript))

CallFillPub ==
    /\ pc = "ready"
    /\ log.n < MaxCalls
    /\ \E obj \in 1..Len(heap) : \E public_inputs \in PublicInputSlices :
          HeapCall("fill_pub_coefs", obj, public_inputs,
                   fill_pub_coefs(heap, obj, public_inputs, transcript))

CallLoadWitnessBytes ==
    /\ pc = "ready"
    /\ log.n < MaxCalls
    /\ \E obj \in 1..Len(heap) : \E file_bytes \in WitnessFiles :
          HeapCall("load_witness_bytes", obj, file_bytes,
                   load_witness_bytes(heap, obj, file_bytes, transcript))

NextCoefs ==
    \/ CallLoadCircuit
    \/ CallBuild
    \/ CallClone
    \/ CallIdentify
    \/ CallFillRnd
    \/ CallFillPub
    \/ CallLoadWitnessBytes

SpecCoefs == InitLoad /\ [][NextCoefs]_vars

(***************************************************************************)
(* The coefficient slots of a circuit, for the claims on the index.        *)
(***************************************************************************)
\* the places of the coefficients of circuit c stored as object obj
Slots(c, obj) ==
    UNION {UNION {{Ptr(obj, l, kind, pos) : pos \in 1..Len(c.layers[l][kind])} :
                     kind \in GateKinds} :
              l \in 1..Len(c.layers)}

GateAt(c, ptr) == c.layers[ptr.layer][ptr.list][ptr.pos]

\* the circuit with every coefficient of the slots S blanked
Blanked(c, obj, S) ==
    [c EXCEPT !.layers =
        [l \in 1..Len(c.layers) |->
            [c.layers[l] EXCEPT
                !.mul = [pos \in 1..Len(@) |->
                            IF Ptr(obj, l, "mul", pos) \in S
                            THEN [@[pos] EXCEPT !.coef = SimdZero] ELSE @[pos]],
                !.add = [pos \in 1..Len(@) |->
                            IF Ptr(obj, l, "add", pos) \in S
                            THEN [@[pos] EXCEPT !.coef = SimdZero] ELSE @[pos]],
                !.const_ = [pos \in 1..Len(@) |->
                            IF Ptr(obj, l, "const_", pos) \in S
                            THEN [@[pos] EXCEPT !.coef = SimdZero] ELSE @[pos]],
                !.uni = [pos \in 1..Len(@) |->
                            IF Ptr(obj, l, "uni", pos) \in S
                            THEN [@[pos] EXCEPT !.coef = SimdZero] ELSE @[pos]]]]]

RandomSlots(c, obj) == {p \in Slots(c, obj) : GateAt(c, p).coef_type = Random}

PublicInputSlots(c, obj) ==
    {p \in Slots(c, obj) : GateAt(c, p).coef_type.tag = "PublicInput"}

(***************************************************************************)
(* C7.  After flatten and after every identify_special_coefs the flag is   *)
(* set; in a circuit with the flag set rnd_coefs holds one pointer to      *)
(* every Random coefficient and to nothing else, and pub_coefs one pair    *)
(* (i, pointer) for every PublicInput(i) coefficient and nothing else;     *)
(* identifying a circuit again leaves the two lists as they were.          *)
(***************************************************************************)
IndexExact(c, obj) ==
    /\ \A p \in Slots(c, obj) \cup Range(c.rnd_coefs) :
          Occurrences(c.rnd_coefs, p)
              = IF p \in RandomSlots(c, obj) THEN 1 ELSE 0
    /\ \A e \in {<<GateAt(c, p).coef_type.idx, p>> : p \in Slots(c, obj)}
                    \cup Range(c.pub_coefs) :
          Occurrences(c.pub_coefs, e)
              = IF /\ e[2] \in PublicInputSlots(c, obj)
                   /\ GateAt(c, e[2]).coef_type = PublicInput(e[1])
                THEN 1 ELSE 0

C7_IndexExact ==
    /\ log.op \in {"load_circuit", "identify_special_coefs"} =>
          heap[log.obj].special_coefs_identified
    /\ \A obj \in 1..Len(heap) :
          heap[obj].special_coefs_identified => IndexExact(heap[obj], obj)
    /\ (log.op = "identify_special_coefs"
            /\ log.before[log.obj].special_coefs_identified) =>
          /\ heap[log.obj].rnd_coefs = log.before[log.obj].rnd_coefs
          /\ heap[log.obj].pub_coefs = log.before[log.obj].pub_coefs

\* a circuit with a Random and two PublicInput coefficients in three gate
\* lists, identified by flatten, was identified again
C7_Witness ==
    /\ log.op = "identify_special_coefs"
    /\ log.before[log.obj].special_coefs_identified
    /\ Len(heap[log.obj].rnd_coefs) >= 1
    /\ Len(heap[log.obj].pub_coefs) >= 2
    /\ \E p, q \in Range(heap[log.obj].rnd_coefs)
                      \cup {e[2] : e \in Range(heap[log.obj].pub_coefs)} :
          p.list # q.list

(***************************************************************************)
(* C8.  A clone has the layers of its original and an index of its own:    *)
(* every pointer of a circuit's rnd_coefs and pub_coefs is to a            *)
(* coefficient of that circuit's own layers, so that fill_rnd_coefs,       *)
(* fill_pub_coefs and load_witness_bytes on one circuit leave every other  *)
(* circuit as it was; the clone of a circuit without the flag has no flag  *)
(* and empty lists.                                                        *)
(***************************************************************************)
OwnPointers(c, obj) ==
    /\ \A p \in Range(c.rnd_coefs) : p \in Slots(c, obj)
    /\ \A e \in Range(c.pub_coefs) : e[2] \in Slots(c, obj)

C8_CloneOwnsIndex ==
    /\ \A obj \in 1..Len(heap) : OwnPointers(heap[obj], obj)
    /\ log.op = "clone" =>
          /\ Len(heap) = Len(log.before) + 1
          /\ heap[Len(heap)].layers = log.before[log.obj].layers
          /\ heap[Len(heap)].special_coefs_identified
                = log.before[log.obj].special_coefs_identified
          /\ ~log.before[log.obj].special_coefs_identified =>
                /\ heap[Len(heap)].rnd_coefs = <<>>
                /\ heap[Len(heap)].pub_coefs = <<>>
          /\ log.before[log.obj].special_coefs_identified =>
                /\ Len(heap[Len(heap)].rnd_coefs) = Len(log.before[log.obj].rnd_coefs)
                /\ Len(heap[Len(heap)].pub_coefs) = Len(log.before[log.obj].pub_coefs)
    /\ log.op \in {"fill_rnd_coefs", "fill_pub_coefs", "load_witness_bytes"} =>
          \A obj \in 1..Len(heap) : obj # log.obj => heap[obj] = log.before[obj]

\* the template and two clones are alive and fill_rnd_coefs wrote the
\* Random coefficients of a clone
C8_Witness ==
    /\ log.op = "fill_rnd_coefs"
    /\ Len(heap) >= 3
    /\ log.obj >= 2
    /\ log.writes # <<>>
    /\ heap[log.obj] # log.before[log.obj]

(***************************************************************************)
(* C9.  fill_rnd_coefs writes every Random coefficient once, each with a   *)
(* draw of its own from the transcript, and fill_pub_coefs writes          *)
(* public_inputs[i] once to every PublicInput(i) coefficient; neither      *)
(* changes a coefficient of another type, a wire index, a coef_type or     *)
(* anything else of the circuit, and on a circuit without the flag both    *)
(* abort with nothing changed.                                             *)
(***************************************************************************)
WrittenOnce(writes, S) ==
    /\ Range(writes) \subseteq S
    /\ \A p \in S : Occurrences(writes, p) = 1

FillRndEffect(c0, c1, obj) ==
    /\ log.status = "ok"
    /\ WrittenOnce(log.writes, RandomSlots(c0, obj))
    /\ transcript = log.drawn + Cardinality(RandomSlots(c0, obj))
    /\ \A k \in 1..Len(log.writes) :
          GateAt(c1, log.writes[k]).coef = Broadcast(Challenge(log.drawn + k - 1))
    /\ Blanked(c1, obj, RandomSlots(c0, obj)) = Blanked(c0, obj, RandomSlots(c0, obj))

FillPubEffect(c0, c1, obj, public_inputs) ==
    /\ log.status = "ok" <=>
          \A p \in PublicInputSlots(c0, obj) :
              GateAt(c0, p).coef_type.idx < Len(public_inputs)
    /\ log.status = "ok" =>
          /\ WrittenOnce(log.writes, PublicInputSlots(c0, obj))
          /\ \A p \in PublicInputSlots(c0, obj) :
                GateAt(c1, p).coef = public_inputs[GateAt(c0, p).coef_type.idx + 1]
    /\ \A p \in Range(log.writes) : Occurrences(log.writes, p) = 1
    /\ transcript = log.drawn
    /\ Blanked(c1, obj, PublicInputSlots(c0, obj))
          = Blanked(c0, obj, PublicInputSlots(c0, obj))

Aborted ==
    /\ log.status = "panic"
    /\ heap = log.before
    /\ transcript = log.drawn

C9_FillLifecycle ==
    /\ log.op = "fill_rnd_coefs" =>
          IF log.before[log.obj].special_coefs_identified
          THEN FillRndEffect(log.before[log.obj], heap[log.obj], log.obj)
          ELSE Aborted
    /\ log.op = "fill_pub_coefs" =>
          IF log.before[log.obj].special_coefs_identified
          THEN FillPubEffect(log.before[log.obj], heap[log.obj], log.obj, log.input)
          ELSE Aborted

\* fill_rnd_coefs wrote three Random coefficients of a circuit that holds
\* PublicInput coefficients too, after earlier draws from the transcript
C9_Witness ==
    /\ log.op = "fill_rnd_coefs"
    /\ log.status = "ok"
    /\ Len(log.writes) >= 3
    /\ log.drawn > 0
    /\ PublicInputSlots(heap[log.obj], log.obj) # {}

(***************************************************************************)
(* C10.  The public inputs of a witness file, read off its bytes.          *)
(***************************************************************************)
FileNumWitnesses(file_bytes) == LittleEndian(file_bytes, 8)

FileNumInputs(file_bytes) == LittleEndian(Drop(file_bytes, 8), 8)

FileNumPublicInputs(file_bytes) == LittleEndian(Drop(file_bytes, 16), 8)

\* public input i (from 0) of witness w (from 1) of the file
FilePublicInput(file_bytes, w, i) ==
    LittleEndian(
        Drop(file_bytes,
             56 + 32 * ((w - 1) * (FileNumInputs(file_bytes) + FileNumPublicInputs(file_bytes))
                            + FileNumInputs(file_bytes) + i)),
        4)

FilePrivateInput(file_bytes, w, j) ==
    LittleEndian(
        Drop(file_bytes,
             56 + 32 * ((w - 1) * (FileNumInputs(file_bytes) + FileNumPublicInputs(file_bytes))
                            + j)),
        4)

C11_WitnessPacking ==
    (log.op = "load_witness_bytes" /\ log.status = "ok") =>
        LET input_vals == heap[log.obj].layers[1].input_vals
        IN  /\ Len(input_vals) = FileNumInputs(log.input)
            /\ \A j \in 1..Len(input_vals) : \A k \in Lanes :
                  input_vals[j][k]
                      = IF k <= FileNumWitnesses(log.input)
                        THEN FilePrivateInput(log.input, k, j - 1)
                        ELSE 0

\* a file with fewer witnesses than lanes was loaded: the first lane holds
\* the witness and the last lane is zero
C11_Witness ==
    /\ log.op = "load_witness_bytes"
    /\ log.status = "ok"
    /\ FileNumWitnesses(log.input) < SIMD_SIZE
    /\ FileNumPublicInputs(log.input) > 0
    /\ heap[log.obj].layers[1].input_vals # <<>>
    /\ heap[log.obj].layers[1].input_vals[1][1] # 0
    /\ heap[log.obj].layers[1].input_vals[1][SIMD_SIZE] = 0

(***************************************************************************)
(* Evaluation of loaded circuits: SpecEval.                                *)
(***************************************************************************)
\* layer 0 of the two-layer multiplication: o_0 = i_0 * i_1
MulPair == Gates(<<GateBytes(<<0, 1>>, 0, ConstantBytes(1))>>, <<>>, <<>>, <<>>)
\* layer 1 of the two-layer multiplication: o_0 = i_0 * i_0
Square == Gates(<<GateBytes(<<0, 0>>, 0, ConstantBytes(1))>>, <<>>, <<>>, <<>>)
\* the x^5 layer: one uni gate of type 12345 with coefficient 1
Pow5Gate == Gates(<<>>, <<>>, <<>>, <<CustomGateBytes(12345, <<0>>, 0, ConstantBytes(1))>>)
\* gates of every kind, two of them on the same output slot
AllKinds ==
    Gates(<<GateBytes(<<0, 1>>, 1, ConstantBytes(2))>>,
          <<GateBytes(<<1>>, 0, ConstantBytes(3)), GateBytes(<<0>>, 0, ConstantBytes(1))>>,
          <<GateBytes(<<>>, 1, ConstantBytes(4))>>,
          <<CustomGateBytes(12345, <<0>>, 0, ConstantBytes(1)),
            CustomGateBytes(12346, <<1>>, 1, ConstantBytes(2))>>)
\* a custom gate of a type evaluate does not know
UnknownUni ==
    Gates(<<>>, <<GateBytes(<<0>>, 0, ConstantBytes(1))>>, <<>>,
          <<CustomGateBytes(7, <<0>>, 1, ConstantBytes(1))>>)
\* a gate on the second input only
SecondOnly == Gates(<<>>, <<GateBytes(<<1>>, 0, ConstantBytes(1))>>, <<>>, <<>>)
\* a gate on the first input only
FirstOnly == Gates(<<>>, <<GateBytes(<<0>>, 1, ConstantBytes(2))>>, <<>>, <<>>)

\* the circuit files evaluated: the two-layer multiplication; one and three
\* layers of every gate kind; a layer of 4 inputs after a layer of 2
\* outputs; the x^5 layer; an unknown custom gate; a gate whose input index
\* is past the layer's size; a layer reading its first input only; a file
\* without layers
EvalFiles ==
    {[magic |-> MAGIC_NUM,
      segs |-> <<SegmentRecord(2, 1, <<>>, MulPair), SegmentRecord(1, 1, <<>>, Square)>>,
      layers |-> <<0, 1>>],
     [magic |-> MAGIC_NUM, segs |-> <<SegmentRecord(2, 2, <<>>, AllKinds)>>,
      layers |-> <<0>>],
     [magic |-> MAGIC_NUM, segs |-> <<SegmentRecord(2, 2, <<>>, AllKinds)>>,
      layers |-> <<0, 0, 0>>],
     [magic |-> MAGIC_NUM,
      segs |-> <<SegmentRecord(2, 2, <<>>, AllKinds), SegmentRecord(4, 2, <<>>, SecondOnly)>>,
      layers |-> <<0, 1>>],
     [magic |-> MAGIC_NUM, segs |-> <<SegmentRecord(1, 1, <<>>, Pow5Gate)>>,
      layers |-> <<0>>],
     [magic |-> MAGIC_NUM, segs |-> <<SegmentRecord(2, 2, <<>>, UnknownUni)>>,
      layers |-> <<0>>],
     [magic |-> MAGIC_NUM, segs |-> <<SegmentRecord(2, 2, <<>>, AddHigh)>>,
      layers |-> <<0>>],
     [magic |-> MAGIC_NUM, segs |-> <<SegmentRecord(2, 2, <<>>, FirstOnly)>>,
      layers |-> <<0>>],
     [magic |-> MAGIC_NUM, segs |-> <<SegmentRecord(2, 2, <<>>, AllKinds)>>,
      layers |-> <<>>]}

\* the witness files bound before evaluation: one or two witnesses of one,
\* two or four private inputs and no public input
EvalWitnessFiles ==
    {WitnessBytes(1, 2, 0, <<3, 5>>),
     WitnessBytes(2, 2, 0, <<3, 5, 2, 1>>),
     WitnessBytes(1, 1, 0, <<2>>),
     WitnessBytes(2, 1, 0, <<2, 3>>),
     WitnessBytes(1, 4, 0, <<1, 2, 3, 5>>)}

\* the values random_unsafe yields
RandomValues == {Broadcast(2), Broadcast(3), [k \in Lanes |-> k + 3]}

\* Circuit::load_circuit on a file of EvalFiles; the circuit is object 1
CallLoadEvalCircuit ==
    /\ pc = "start"
    /\ \E f \in EvalFiles :
          \E prios \in LayerOrders(RecursiveCircuit_load(FileBytes(f)).val, 1) :
              /\ rc' = RecursiveCircuit_load(FileBytes(f)).val
              /\ heap' = <<flatten(RecursiveCircuit_load(FileBytes(f)).val, prios, 1).circuit>>
              /\ log' = Call("load_circuit", 1, FileBytes(f), "ok", <<>>)
    /\ pc' = "ready"
    /\ UNCHANGED <<reader, last, transcript, prover>>

CallLoadEvalWitness ==
    /\ pc = "ready"
    /\ log.n < MaxCalls
    /\ \E obj \in 1..Len(heap) : \E file_bytes \in EvalWitnessFiles :
          HeapCall("load_witness_bytes", obj, file_bytes,
                   load_witness_bytes(heap, obj, file_bytes, transcript))

CallSetRandomInput ==
    /\ pc = "ready"
    /\ log.n < MaxCalls
    /\ \E obj \in 1..Len(heap) :
          \E input_vals \in
                 IF heap[obj].layers = <<>> THEN {<<>>}
                 ELSE [1..Pow2(heap[obj].layers[1].input_var_num) -> RandomValues] :
              HeapCall("set_random_input_for_test", obj, input_vals,
                       set_random_input_for_test(heap, obj, input_vals, transcript))

CallEvaluate ==
    /\ pc = "ready"
    /\ log.n < MaxCalls
    /\ \E obj \in 1..Len(heap) :
          HeapCall("evaluate", obj, <<>>, Circuit_evaluate(heap, obj, transcript))

NextEval ==
    \/ CallLoadEvalCircuit
    \/ CallLoadEvalWitness
    \/ CallSetRandomInput
    \/ CallEvaluate

SpecEval == InitLoad /\ [][NextEval]_vars

(***************************************************************************)
(* C12.  After load_witness_bytes followed by Circuit::evaluate, the       *)
(* input_vals of every layer has length 2^input_var_num of the layer and   *)
(* the output_vals of the last layer has length 2^output_var_num, whatever *)
(* the witness header and the layer sizes of the circuit file.             *)
(***************************************************************************)
C12_ValueLengths ==
    (log.op = "evaluate" /\ log.status = "ok" /\ log.prev = "load_witness_bytes") =>
        LET layers == heap[log.obj].layers
        IN  /\ \A l \in 1..Len(layers) :
                  Len(layers[l].input_vals) = Pow2(layers[l].input_var_num)
            /\ Len(layers[Len(layers)].output_vals)
                  = Pow2(layers[Len(layers)].output_var_num)

(***************************************************************************)
(* The value of an output slot, written as the sum the gates stand for.    *)
(***************************************************************************)
RECURSIVE Exp(_, _)
Exp(x, n) == IF n = 0 THEN 1 ELSE (x * Exp(x, n - 1)) % FieldOrder

\* what gate g of the list kind adds to its output slot, in lane k
GateValue(input_vals, kind, g, k) ==
    CASE kind = "mul" ->
            (((input_vals[g.i_ids[1] + 1][k] * input_vals[g.i_ids[2] + 1][k]) % FieldOrder)
                * g.coef[k]) % FieldOrder
      [] kind = "add" -> (input_vals[g.i_ids[1] + 1][k] * g.coef[k]) % FieldOrder
      [] kind = "const_" -> g.coef[k] % FieldOrder
      [] kind = "uni" ->
            IF g.gate_type = 12345
            THEN (Exp(input_vals[g.i_ids[1] + 1][k], 5) * g.coef[k]) % FieldOrder
            ELSE (input_vals[g.i_ids[1] + 1][k] * g.coef[k]) % FieldOrder

\* the sum over the first n gates of a list of what they add to slot o
RECURSIVE ListSum(_, _, _, _, _, _)
ListSum(input_vals, kind, gates, n, o, k) ==
    IF n = 0 THEN 0
    ELSE ListSum(input_vals, kind, gates, n - 1, o, k)
            + (IF gates[n].o_id = o THEN GateValue(input_vals, kind, gates[n], k) ELSE 0)

SlotValue(layer, o, k) ==
    (ListSum(layer.input_vals, "mul", layer.mul, Len(layer.mul), o, k)
        + ListSum(layer.input_vals, "add", layer.add, Len(layer.add), o, k)
        + ListSum(layer.input_vals, "const_", layer.const_, Len(layer.const_), o, k)
        + ListSum(layer.input_vals, "uni", layer.uni, Len(layer.uni), o, k)) % FieldOrder

\* res is the evaluation of the layer on its input_vals
LayerEvaluated(layer, res) ==
    /\ Len(res) = Pow2(layer.output_var_num)
    /\ \A o \in 0..(Len(res) - 1) : \A k \in Lanes : res[o + 1][k] = SlotValue(layer, o, k)

\* the vector layer l of the circuit c was evaluated into
EvaluatedInto(c, l) ==
    IF l < Len(c.layers) THEN c.layers[l + 1].input_vals ELSE c.layers[l].output_vals

(***************************************************************************)
(* C13.  CircuitLayer::evaluate yields a vector of 2^output_var_num slots, *)
(* slot o being the sum over the gates with o_id = o of in[i0]*in[i1]*coef *)
(* (mul), in[i0]*coef (add), coef (const), in[i0]^5*coef (uni of type      *)
(* 12345) and in[i0]*coef (uni of type 12346), zero where there is no      *)
(* gate; input 2 through a 12345 gate of coefficient 1 gives 32; a uni     *)
(* gate of another type aborts the evaluation.                             *)
(***************************************************************************)
C13_LayerEvaluation ==
    log.op = "evaluate" =>
        LET c == heap[log.obj]
        IN  /\ (\E l \in 1..Len(c.layers) : \E i \in 1..Len(c.layers[l].uni) :
                   c.layers[l].uni[i].gate_type \notin {12345, 12346})
                  => log.status = "panic"
            /\ log.status = "ok" =>
                  \A l \in 1..Len(c.layers) :
                      /\ LayerEvaluated(c.layers[l], EvaluatedInto(c, l))
                      /\ \A i \in 1..Len(c.layers[l].uni) : \A k \in Lanes :
                            (/\ c.layers[l].uni[i].gate_type = 12345
                             /\ c.layers[l].uni[i].coef[k] = 1
                             /\ Len(c.layers[l].uni) + Len(c.layers[l].mul)
                                    + Len(c.layers[l].add) + Len(c.layers[l].const_) = 1
                             /\ c.layers[l].input_vals[c.layers[l].uni[i].i_ids[1] + 1][k] = 2)
                            => EvaluatedInto(c, l)[c.layers[l].uni[i].o_id + 1][k] = 32

\* a layer with gates of every kind, two of them on one slot, was evaluated
\* on inputs that are not zero
C13_Witness ==
    /\ log.op = "evaluate"
    /\ log.status = "ok"
    /\ \E l \in 1..Len(heap[log.obj].layers) :
          LET layer == heap[log.obj].layers[l]
          IN  /\ layer.mul # <<>> /\ layer.const_ # <<>> /\ Len(layer.add) >= 2
              /\ \E i, j \in 1..Len(layer.uni) :
                    layer.uni[i].gate_type = 12345 /\ layer.uni[j].gate_type = 12346
              /\ layer.add[1].o_id = layer.add[2].o_id
              /\ \A o \in 1..Len(EvaluatedInto(heap[log.obj], l)) : \A k \in Lanes :
                    EvaluatedInto(heap[log.obj], l)[o][k] > 5

(***************************************************************************)
(* C14.  Circuit::evaluate carries the values from layer to layer: the     *)
(* input_vals of layer i + 1 becomes the evaluation of layer i on its      *)
(* input_vals and the output_vals of the last layer becomes the evaluation *)
(* of the last layer; the input_vals of layer 0, the gates and the         *)
(* coefficients stay as they were.  The circuit o_0 = i_0 * i_1 followed   *)
(* by o_0 = i_0 * i_0 gives 225 on the inputs (3, 5).                      *)
(***************************************************************************)
\* the circuit without the values its layers hold
Valueless(c) ==
    [c EXCEPT !.layers = [l \in 1..Len(c.layers) |->
                             [c.layers[l] EXCEPT !.input_vals = <<>>, !.output_vals = <<>>]]]

\* the two-layer multiplication
IsTwoLayerMul(c) ==
    /\ Len(c.layers) = 2
    /\ \A l \in 1..2 : c.layers[l].add = <<>> /\ c.layers[l].const_ = <<>>
                          /\ c.layers[l].uni = <<>> /\ Len(c.layers[l].mul) = 1
                          /\ c.layers[l].mul[1].o_id = 0
                          /\ c.layers[l].mul[1].coef = Broadcast(1)
    /\ c.layers[1].mul[1].i_ids = <<0, 1>>
    /\ c.layers[2].mul[1].i_ids = <<0, 0>>

C14_Propagation ==
    (log.op = "evaluate" /\ log.status = "ok") =>
        LET c == heap[log.obj]
            c0 == log.before[log.obj]
        IN  /\ Valueless(c) = Valueless(c0)
            /\ c.layers[1].input_vals = c0.layers[1].input_vals
            /\ \A l \in 1..Len(c.layers) :
                  EvaluatedInto(c, l) = CircuitLayer_evaluate(c.layers[l], <<>>).res
            /\ \A l \in 1..(Len(c.layers) - 1) :
                  c.layers[l].output_vals = c0.layers[l].output_vals
            /\ \A o \in 1..Len(heap) : o # log.obj => heap[o] = log.before[o]
            /\ IsTwoLayerMul(c) =>
                  \A k \in Lanes :
                      (c.layers[1].input_vals[1][k] = 3 /\ c.layers[1].input_vals[2][k] = 5)
                          => c.layers[2].output_vals[1][k] = 225

\* the two-layer multiplication was evaluated on the inputs (3, 5)
C14_Witness ==
    /\ log.op = "evaluate"
    /\ log.status = "ok"
    /\ IsTwoLayerMul(heap[log.obj])
    /\ heap[log.obj].layers[1].input_vals[1][1] = 3
    /\ heap[log.obj].layers[1].input_vals[2][1] = 5
    /\ heap[log.obj].layers[2].input_vals[1][1] = 15
    /\ heap[log.obj].layers[2].output_vals[1][1] = 225

(***************************************************************************)
(* C15.  Circuit::evaluate is idempotent: a second call right after a      *)
(* first one, with the inputs of layer 0 and the coefficients untouched in *)
(* between, leaves every input_vals and the output_vals of the last layer  *)
(* as the first call left them.                                            *)
(***************************************************************************)
C15_EvaluateIdempotent ==
    (log.op = "evaluate" /\ log.prev = "evaluate" /\ log.status = "ok") =>
        heap = log.before

\* evaluate returned twice in a row on a circuit of three layers whose values
\* are not zero
C15_Witness ==
    /\ log.op = "evaluate"
    /\ log.prev = "evaluate"
    /\ log.status = "ok"
    /\ Len(heap[log.obj].layers) = 3
    /\ \A l \in 1..3 : \A k \in Lanes : heap[log.obj].layers[l].input_vals[1][k] # 0
    /\ \A k \in Lanes : heap[log.obj].layers[3].output_vals[1][k] # 0

(***************************************************************************)
(* The GKR prover: the scratchpad, the tables of the equality polynomial,  *)
(* the sumcheck helpers of a layer, the layer's sumcheck and gkr_prove.    *)
(* A vector of the code is a sequence whose element k + 1 is the code's    *)
(* element k.  A value of C::Field is one value per lane; a challenge is a *)
(* scalar.  The log::trace! lines take no part: the repository installs no *)
(* logger, so their arguments are never evaluated.                         *)
(***************************************************************************)
\* vec[i] of the code
At(vec, i) == vec[i + 1]

\* GkrScratchpad::new
GkrScratchpad_new(max_num_input_var, max_num_output_var) ==
    LET max_input_num == Pow2(max_num_input_var)
        max_output_num == Pow2(max_num_output_var)
    IN  [v_evals |-> [k \in 1..max_input_num |-> SimdZero],
         hg_evals_5 |-> [k \in 1..max_input_num |-> SimdZero],
         eq_evals_at_rx |-> Zeros(max_input_num),
         eq_evals_at_rz0 |-> Zeros(max_output_num),
         eq_evals_at_rz1 |-> Zeros(max_output_num),
         eq_evals_first_half |-> Zeros(max_output_num),
         eq_evals_second_half |-> Zeros(max_output_num),
         gate_exists_5 |-> [k \in 1..max_input_num |-> FALSE]]

\* the loop of eq_evals_at_primitive from r[k] on: the table doubles with
\* every element of r, and a write past the end of eq_evals panics
RECURSIVE EqPrimitiveLoop(_, _, _, _)
EqPrimitiveLoop(r, k, cur_eval_num, eq_evals) ==
    IF k > Len(r) THEN [status |-> "ok", eq_evals |-> eq_evals]
    ELSE IF 2 * cur_eval_num > Len(eq_evals) THEN [status |-> "panic", eq_evals |-> eq_evals]
    ELSE EqPrimitiveLoop(r, k + 1, 2 * cur_eval_num,
             [idx \in 1..Len(eq_evals) |->
                 IF idx <= cur_eval_num THEN FMul(eq_evals[idx], FSub(1, r[k]))
                 ELSE IF idx <= 2 * cur_eval_num THEN FMul(eq_evals[idx - cur_eval_num], r[k])
                 ELSE eq_evals[idx]])

\* eq_evals_at_primitive
eq_evals_at_primitive(r, mul_factor, eq_evals) ==
    IF Len(eq_evals) = 0 THEN [status |-> "panic", eq_evals |-> eq_evals]
    ELSE EqPrimitiveLoop(r, 1, 1, [eq_evals EXCEPT ![1] = mul_factor])

\* a faulty eq_eval_at that takes the halves of an index the other way round
eq_eval_at_swapped(r, mul_factor, eq_evals, sqrt_n_1st, sqrt_n_2nd) ==
    LET first_half_bits == Len(r) \div 2
        first == eq_evals_at_primitive(SubSeq(r, 1, first_half_bits), mul_factor, sqrt_n_1st)
        second == eq_evals_at_primitive(Drop(r, first_half_bits), 1, sqrt_n_2nd)
    IN  IF first.status # "ok" \/ second.status # "ok"
        THEN [status |-> "panic", eq_evals |-> eq_evals,
              sqrt_n_1st |-> sqrt_n_1st, sqrt_n_2nd |-> sqrt_n_2nd]
        ELSE [status |-> "ok",
              eq_evals |->
                  [idx \in 1..Len(eq_evals) |->
                      IF idx <= Pow2(Len(r))
                      THEN FMul(At(first.eq_evals,
                                   (idx - 1) \div Pow2(Len(r) - first_half_bits)),
                                At(second.eq_evals,
                                   (idx - 1) % Pow2(Len(r) - first_half_bits)))
                      ELSE eq_evals[idx]],
              sqrt_n_1st |-> first.eq_evals,
              sqrt_n_2nd |-> second.eq_evals]

\* eq_eval_at: the table of the first half of r's bits, the table of the
\* rest, and their outer product in the first 2^len entries of eq_evals
eq_eval_at(r, mul_factor, eq_evals, sqrt_n_1st, sqrt_n_2nd) ==
    LET first_half_bits == Len(r) \div 2
        first == eq_evals_at_primitive(SubSeq(r, 1, first_half_bits), mul_factor, sqrt_n_1st)
        second == eq_evals_at_primitive(Drop(r, first_half_bits), 1, sqrt_n_2nd)
    IN  IF first.status # "ok" \/ second.status # "ok"
        THEN [status |-> "panic", eq_evals |-> eq_evals,
              sqrt_n_1st |-> sqrt_n_1st, sqrt_n_2nd |-> sqrt_n_2nd]
        ELSE [status |-> "ok",
              eq_evals |->
                  [idx \in 1..Len(eq_evals) |->
                      IF idx <= Pow2(Len(r))
                      THEN FMul(At(first.eq_evals, (idx - 1) % Pow2(first_half_bits)),
                                At(second.eq_evals, (idx - 1) \div Pow2(first_half_bits)))
                      ELSE eq_evals[idx]],
              sqrt_n_1st |-> first.eq_evals,
              sqrt_n_2nd |-> second.eq_evals]

\* SumcheckMultilinearProdHelper::new
SumcheckMultilinearProdHelper_new(var_num) ==
    [var_num |-> var_num, sumcheck_var_idx |-> 0, cur_eval_size |-> Pow2(var_num)]

\* the pairs poly_eval_at and receive_challenge skip
NoGate(gate_exists, i) == ~At(gate_exists, 2 * i) /\ ~At(gate_exists, 2 * i + 1)

\* the loop of poly_eval_at from pair i on; acc is <<p0, p1, p2>>
RECURSIVE PolySum(_, _, _, _, _, _)
PolySum(i, eval_size, src_v, bk_hg, gate_exists, acc) ==
    IF i >= eval_size THEN [status |-> "ok", acc |-> acc]
    ELSE IF 2 * i + 1 >= Len(gate_exists) THEN [status |-> "panic", acc |-> acc]
    ELSE IF NoGate(gate_exists, i)
    THEN PolySum(i + 1, eval_size, src_v, bk_hg, gate_exists, acc)
    ELSE IF 2 * i + 1 >= Len(src_v) \/ 2 * i + 1 >= Len(bk_hg)
    THEN [status |-> "panic", acc |-> acc]
    ELSE LET f_v_0 == At(src_v, 2 * i)
             f_v_1 == At(src_v, 2 * i + 1)
             hg_v_0 == At(bk_hg, 2 * i)
             hg_v_1 == At(bk_hg, 2 * i + 1)
         IN  PolySum(i + 1, eval_size, src_v, bk_hg, gate_exists,
                     <<SimdAdd(acc[1], SimdMul(f_v_0, hg_v_0)),
                       SimdAdd(acc[2], SimdMul(f_v_1, hg_v_1)),
                       SimdAdd(acc[3], SimdMul(SimdAdd(f_v_0, f_v_1),
                                               SimdAdd(hg_v_0, hg_v_1)))>>)

\* a faulty poly_eval_at that returns the third sum as it is
Reduced_raw(acc) == acc

\* the last line of poly_eval_at before it returns: p2 = 6 p1 + 3 p0 - 2 p2
Reduced(acc) ==
    <<acc[1], acc[2],
      SimdSub(SimdAdd(SimdMul(acc[2], Broadcast(6)), SimdMul(acc[1], Broadcast(3))),
              SimdMul(acc[3], Broadcast(2)))>>

\* a faulty poly_eval_at that reads the folded buffer in every round
poly_eval_at_folded(self, var_idx, degree, bk_f, bk_hg, init_v, gate_exists) ==
    IF degree # 2 \/ var_idx >= self.var_num
    THEN [status |-> "panic", evals |-> <<>>]
    ELSE [status |-> "ok",
          evals |-> Reduced(PolySum(0, Pow2(self.var_num - var_idx - 1), bk_f, bk_hg,
                                    gate_exists, <<SimdZero, SimdZero, SimdZero>>).acc)]

\* SumcheckMultilinearProdHelper::poly_eval_at; the subtraction of the shift
\* overflows and panics when var_idx is not below var_num
poly_eval_at(self, var_idx, degree, bk_f, bk_hg, init_v, gate_exists) ==
    IF degree # 2 \/ var_idx >= self.var_num
    THEN [status |-> "panic", evals |-> <<>>]
    ELSE LET sum == PolySum(0, Pow2(self.var_num - var_idx - 1),
                            IF var_idx = 0 THEN init_v ELSE bk_f,
                            bk_hg, gate_exists, <<SimdZero, SimdZero, SimdZero>>)
         IN  [status |-> sum.status, evals |-> Reduced(sum.acc)]

\* x[i] = x[2i] + (x[2i+1] - x[2i]).scale(r)
Folded(x, i, r) == SimdAdd(At(x, 2 * i), scale(SimdSub(At(x, 2 * i + 1), At(x, 2 * i)), r))

\* a faulty loop that takes the pairs from the last down to the first
FoldOrder_descending(half) == [k \in 1..half |-> half - k]

\* for i in 0..self.cur_eval_size >> 1: the pairs in the order the loop of
\* receive_challenge takes them
FoldOrder(half) == [k \in 1..half |-> k - 1]

\* one iteration of the loop of receive_challenge, on pair i: the three
\* vectors bufs are written in place, each right side read before its store
FoldStep(bufs, i, var_idx, r, init_v) ==
    IF NoGate(bufs.gate_exists, i)
    THEN [gate_exists |-> [bufs.gate_exists EXCEPT ![i + 1] = FALSE],
          bk_f |-> [bufs.bk_f EXCEPT
                       ![i + 1] = Folded(IF var_idx = 0 THEN init_v ELSE bufs.bk_f, i, r)],
          bk_hg |-> [bufs.bk_hg EXCEPT ![i + 1] = SimdZero]]
    ELSE [gate_exists |-> [bufs.gate_exists EXCEPT ![i + 1] = TRUE],
          bk_f |-> [bufs.bk_f EXCEPT
                       ![i + 1] = Folded(IF var_idx = 0 THEN init_v ELSE bufs.bk_f, i, r)],
          bk_hg |-> [bufs.bk_hg EXCEPT ![i + 1] = Folded(bufs.bk_hg, i, r)]]

\* the loop of receive_challenge from the k-th pair of order on
RECURSIVE FoldLoop(_, _, _, _, _, _)
FoldLoop(bufs, order, k, var_idx, r, init_v) ==
    IF k > Len(order) THEN bufs
    ELSE FoldLoop(FoldStep(bufs, order[k], var_idx, r, init_v), order, k + 1,
                  var_idx, r, init_v)

\* what receive_challenge returns once its loop has left bufs
FoldDone(self, bufs) ==
    [status |-> "ok",
     self |-> [self EXCEPT !.cur_eval_size = self.cur_eval_size \div 2,
                           !.sumcheck_var_idx = @ + 1],
     bk_f |-> bufs.bk_f, bk_hg |-> bufs.bk_hg, gate_exists |-> bufs.gate_exists]

\* SumcheckMultilinearProdHelper::receive_challenge: the two assertions,
\* then the loop; an index past the end of a vector panics
ProdHelper_receive_challenge(self, var_idx, r, bk_f, bk_hg, init_v, gate_exists) ==
    LET half == self.cur_eval_size \div 2
        src_v == IF var_idx = 0 THEN init_v ELSE bk_f
    IN  IF \/ var_idx # self.sumcheck_var_idx
           \/ var_idx >= self.var_num
           \/ 2 * half > Len(gate_exists)
           \/ 2 * half > Len(src_v)
           \/ 2 * half > Len(bk_hg)
           \/ half > Len(bk_f)
        THEN [status |-> "panic", self |-> self, bk_f |-> bk_f, bk_hg |-> bk_hg,
              gate_exists |-> gate_exists]
        ELSE FoldDone(self,
                 FoldLoop([bk_f |-> bk_f, bk_hg |-> bk_hg, gate_exists |-> gate_exists],
                          FoldOrder(half), 1, var_idx, r, init_v))

\* C::challenge_mul_circuit: the coefficient of a gate times a challenge,
\* lane by lane
challenge_mul_circuit(a, b) == scale(b, a)

\* C::simd_circuit_field_into_field: the lanes as they are
simd_circuit_field_into_field(x) == x

\* SumcheckGkrHelper::new on layer number layer (from 0) of the circuit
SumcheckGkrHelper_new(layer, input_var_num, output_var_num, rz0, rz1, alpha, beta) ==
    [rx |-> <<>>, ry |-> <<>>, layer |-> layer, rz0 |-> rz0, rz1 |-> rz1,
     alpha |-> alpha, beta |-> beta,
     input_var_num |-> input_var_num, output_var_num |-> output_var_num,
     x_helper |-> SumcheckMultilinearProdHelper_new(input_var_num),
     y_helper |-> SumcheckMultilinearProdHelper_new(input_var_num)]

\* what the helper and its scratchpad are after a step: st.status is "ok",
\* "panic", or "undefined" after a write past the end of a vector
HelperState(self, sp) == [status |-> "ok", self |-> self, sp |-> sp]

\* the first n elements of vec set to zero
Filled(vec, n, zero) == [k \in 1..Len(vec) |-> IF k <= n THEN zero ELSE vec[k]]

\* the two std::ptr::write_bytes of prepare_g_x_vals and prepare_h_y_vals:
\* past the end of the vectors the write is undefined behaviour
write_bytes(st, n) ==
    IF st.status # "ok" THEN st
    ELSE IF n > Len(st.sp.hg_evals_5) \/ n > Len(st.sp.gate_exists_5)
    THEN [st EXCEPT !.status = "undefined"]
    ELSE [st EXCEPT !.sp.hg_evals_5 = Filled(@, n, SimdZero),
                    !.sp.gate_exists_5 = Filled(@, n, FALSE)]

\* eq_eval_at on one of the scratchpad's tables with its two half tables
EqEvalInto(st, r, mul_factor, table) ==
    IF st.status # "ok" THEN st
    ELSE LET res == eq_eval_at(r, mul_factor, st.sp[table],
                               st.sp.eq_evals_first_half, st.sp.eq_evals_second_half)
         IN  [st EXCEPT !.status = res.status,
                        !.sp = [[[@ EXCEPT ![table] = res.eq_evals]
                                    EXCEPT !.eq_evals_first_half = res.sqrt_n_1st]
                                    EXCEPT !.eq_evals_second_half = res.sqrt_n_2nd]]

\* the loop eq_evals_at_rz0[i] += eq_evals_at_rz1[i] of prepare_g_x_vals
SumTables(st) ==
    IF st.status # "ok" THEN st
    ELSE IF \/ Pow2(Len(st.self.rz0)) > Len(st.sp.eq_evals_at_rz0)
            \/ Pow2(Len(st.self.rz0)) > Len(st.sp.eq_evals_at_rz1)
    THEN [st EXCEPT !.status = "panic"]
    ELSE [st EXCEPT !.sp.eq_evals_at_rz0 =
             [k \in 1..Len(@) |->
                 IF k <= Pow2(Len(st.self.rz0))
                 THEN FAdd(@[k], st.sp.eq_evals_at_rz1[k])
                 ELSE @[k]]]

\* a faulty update that leaves the flag as it is
AddHg_unflagged(st, i, v) == [st EXCEPT !.sp.hg_evals_5[i + 1] = SimdAdd(@, v)]

\* hg_vals[i] += v; gate_exists[i] = true
AddHg(st, i, v) ==
    [st EXCEPT !.sp.hg_evals_5[i + 1] = SimdAdd(@, v),
               !.sp.gate_exists_5[i + 1] = TRUE]

\* the loop over mul of prepare_g_x_vals
RECURSIVE GXMul(_, _, _)
GXMul(st, vals, gates) ==
    IF st.status # "ok" \/ gates = <<>> THEN st
    ELSE IF \/ Head(gates).i_ids[1] >= Len(st.sp.hg_evals_5)
            \/ Head(gates).i_ids[1] >= Len(st.sp.gate_exists_5)
            \/ Head(gates).i_ids[2] >= Len(vals)
            \/ Head(gates).o_id >= Len(st.sp.eq_evals_at_rz0)
    THEN [st EXCEPT !.status = "panic"]
    ELSE GXMul(AddHg(st, Head(gates).i_ids[1],
                     SimdMul(At(vals, Head(gates).i_ids[2]),
                             challenge_mul_circuit(
                                 At(st.sp.eq_evals_at_rz0, Head(gates).o_id),
                                 Head(gates).coef))),
               vals, Tail(gates))

\* the loop over add of prepare_g_x_vals
RECURSIVE GXAdd(_, _)
GXAdd(st, gates) ==
    IF st.status # "ok" \/ gates = <<>> THEN st
    ELSE IF \/ Head(gates).i_ids[1] >= Len(st.sp.hg_evals_5)
            \/ Head(gates).i_ids[1] >= Len(st.sp.gate_exists_5)
            \/ Head(gates).o_id >= Len(st.sp.eq_evals_at_rz0)
    THEN [st EXCEPT !.status = "panic"]
    ELSE GXAdd(AddHg(st, Head(gates).i_ids[1],
                     challenge_mul_circuit(At(st.sp.eq_evals_at_rz0, Head(gates).o_id),
                                           Head(gates).coef)),
               Tail(gates))

\* SumcheckGkrHelper::prepare_g_x_vals on the layer the helper was made for
prepare_g_x_vals(self, sp, layer) ==
    GXAdd(
        GXMul(
            SumTables(
                EqEvalInto(
                    EqEvalInto(write_bytes(HelperState(self, sp), Len(layer.input_vals)),
                               self.rz0, self.alpha, "eq_evals_at_rz0"),
                    self.rz1, self.beta, "eq_evals_at_rz1")),
            layer.input_vals, layer.mul),
        layer.add)

\* the loop over mul of prepare_h_y_vals
RECURSIVE HYMul(_, _, _)
HYMul(st, v_rx, gates) ==
    IF st.status # "ok" \/ gates = <<>> THEN st
    ELSE IF \/ Head(gates).i_ids[2] >= Len(st.sp.hg_evals_5)
            \/ Head(gates).i_ids[2] >= Len(st.sp.gate_exists_5)
            \/ Head(gates).i_ids[1] >= Len(st.sp.eq_evals_at_rx)
            \/ Head(gates).o_id >= Len(st.sp.eq_evals_at_rz0)
    THEN [st EXCEPT !.status = "panic"]
    ELSE HYMul(AddHg(st, Head(gates).i_ids[2],
                     SimdMul(v_rx,
                             challenge_mul_circuit(
                                 FMul(At(st.sp.eq_evals_at_rz0, Head(gates).o_id),
                                      At(st.sp.eq_evals_at_rx, Head(gates).i_ids[1])),
                                 Head(gates).coef))),
               v_rx, Tail(gates))

\* SumcheckGkrHelper::prepare_h_y_vals
prepare_h_y_vals(self, sp, layer, v_rx) ==
    HYMul(EqEvalInto(write_bytes(HelperState(self, sp), Pow2(Len(self.rx))),
                     self.rx, 1, "eq_evals_at_rx"),
          v_rx, layer.mul)

\* SumcheckGkrHelper::poly_evals_at
poly_evals_at(self, sp, layer, var_idx, degree) ==
    IF var_idx < self.input_var_num
    THEN poly_eval_at(self.x_helper, var_idx, degree, sp.v_evals, sp.hg_evals_5,
                      layer.input_vals, sp.gate_exists_5)
    ELSE poly_eval_at(self.y_helper, var_idx - self.input_var_num, degree, sp.v_evals,
                      sp.hg_evals_5, layer.input_vals, sp.gate_exists_5)

\* the helper and the scratchpad after the product helper has folded
Received(self, sp, phase, r, res) ==
    [status |-> res.status,
     self |-> IF res.status # "ok" THEN self
              ELSE IF phase = "x"
              THEN [self EXCEPT !.x_helper = res.self, !.rx = Append(@, r)]
              ELSE [self EXCEPT !.y_helper = res.self, !.ry = Append(@, r)],
     sp |-> [sp EXCEPT !.v_evals = res.bk_f, !.hg_evals_5 = res.bk_hg,
                       !.gate_exists_5 = res.gate_exists]]

\* SumcheckGkrHelper::receive_challenge
receive_challenge(self, sp, layer, var_idx, r) ==
    IF var_idx < self.input_var_num
    THEN Received(self, sp, "x", r,
             ProdHelper_receive_challenge(self.x_helper, var_idx, r, sp.v_evals,
                 sp.hg_evals_5, layer.input_vals, sp.gate_exists_5))
    ELSE Received(self, sp, "y", r,
             ProdHelper_receive_challenge(self.y_helper, var_idx - self.input_var_num, r,
                 sp.v_evals, sp.hg_evals_5, layer.input_vals, sp.gate_exists_5))

\* SumcheckGkrHelper::vx_claim: whatever v_evals[0] holds
vx_claim(sp) == At(sp.v_evals, 0)

\* SumcheckGkrHelper::vy_claim
vy_claim(sp) == At(sp.v_evals, 0)

\* the fold of eval_multilinear over x from x[k] on
RECURSIVE MultilinearFold(_, _, _)
MultilinearFold(evals, x, k) ==
    IF k > Len(x) THEN evals[1]
    ELSE MultilinearFold([j \in 1..(Len(evals) \div 2) |-> Folded(evals, j - 1, x[k])],
                         x, k + 1)

\* MultiLinearPoly::eval_multilinear: the multilinear polynomial with the
\* values evals on the cube, at the point x, bit j of an index going with
\* x[j]; evals has 2^len(x) values
eval_multilinear(evals, x) ==
    IF Len(evals) # Pow2(Len(x)) THEN [status |-> "panic", v |-> SimdZero]
    ELSE [status |-> "ok", v |-> MultilinearFold(evals, x, 1)]

\* the values transcript.challenge_f may return
ChallengeValues == {3, 5}

\* a faulty order, from layer 0 up
Rev_ascending(layer_num) == [k \in 1..layer_num |-> k - 1]

\* (0..layer_num).rev(): the layers in the order gkr_prove takes them
Rev(layer_num) == [k \in 1..layer_num |-> layer_num - k]

\* no helper has been made yet
NoHelper == [layer |-> -1, rx |-> <<>>, ry |-> <<>>]

\* what the prover has done, in order
Event(ev, layer) == [ev |-> ev, layer |-> layer]

\* Prover::prepare_mem: a scratchpad for the largest input and output
\* variable counts of the circuit's layers
MaxVar(layers, field) ==
    CHOOSE m \in {0} \cup {layers[l][field] : l \in 1..Len(layers)} :
        \A l \in 1..Len(layers) : layers[l][field] <= m

prepare_mem(c, obj) ==
    [at |-> "mem", obj |-> obj,
     sp |-> GkrScratchpad_new(MaxVar(c.layers, "input_var_num"),
                              MaxVar(c.layers, "output_var_num")),
     order |-> <<>>, pos |-> 0,
     rz0 |-> <<>>, rz1 |-> <<>>, alpha |-> 1, beta |-> 0, claimed_v |-> SimdZero,
     helper |-> NoHelper, var_idx |-> 0, polys |-> <<>>,
     v_rx |-> SimdZero, v_ry |-> SimdZero, events |-> <<>>]

\* gkr_prove up to its loop, rz0 being the challenges drawn
GkrInit(p, c, rz0) ==
    [p EXCEPT !.at = "layer",
              !.order = Rev(Len(c.layers)),
              !.pos = 1,
              !.rz0 = rz0,
              !.rz1 = Zeros(Len(rz0)),
              !.alpha = 1,
              !.beta = 0,
              !.claimed_v =
                  eval_multilinear(
                      [k \in 1..Len(c.layers[Len(c.layers)].output_vals) |->
                          simd_circuit_field_into_field(
                              c.layers[Len(c.layers)].output_vals[k])],
                      rz0).v,
              !.events = [k \in 1..Len(rz0) |-> Event("rz0", Len(c.layers) - 1)]
                             \o <<Event("claimed_v", Len(c.layers) - 1)>>]

\* the layer the prover is at, and its number (from 0)
LayerIdx(p) == p.order[p.pos]

LayerOf(p) == heap[p.obj].layers[LayerIdx(p) + 1]

\* the prover after a step of the helper that left st
Stepped(p, st, at) ==
    [p EXCEPT !.at = IF st.status = "ok" THEN at ELSE p.at,
              !.sp = st.sp,
              !.helper = st.self]

\* the end of an iteration of gkr_prove's loop: the sumcheck has returned
\* rx and ry, and alpha and beta are drawn
GkrLayerDone(p, v_ry, alpha, beta) ==
    [p EXCEPT !.at = IF p.pos = Len(p.order) THEN "done" ELSE "layer",
              !.pos = IF p.pos = Len(p.order) THEN p.pos ELSE p.pos + 1,
              !.rz0 = p.helper.rx,
              !.rz1 = p.helper.ry,
              !.alpha = alpha,
              !.beta = beta,
              !.v_ry = v_ry,
              !.events = @ \o <<Event("sumcheck_end", LayerIdx(p)),
                                Event("alpha", LayerIdx(p)),
                                Event("beta", LayerIdx(p))>>]

(***************************************************************************)
(* Proofs of evaluated circuits: SpecProve.  The driver loads a circuit,   *)
(* sets its input, evaluates it, prepares the prover's memory and proves,  *)
(* as run_benchmark and the tests do.                                      *)
(***************************************************************************)
\* layer with two inputs and two outputs, mul and add gates only
MulAdd ==
    Gates(<<GateBytes(<<0, 1>>, 1, ConstantBytes(2))>>,
          <<GateBytes(<<1>>, 0, ConstantBytes(3)), GateBytes(<<0>>, 0, ConstantBytes(1))>>,
          <<>>, <<>>)
\* layer with four inputs and two outputs, mul and add gates only
MulAddWide ==
    Gates(<<GateBytes(<<0, 3>>, 0, ConstantBytes(1)), GateBytes(<<2, 1>>, 1, ConstantBytes(2)),
            GateBytes(<<2, 2>>, 0, ConstantBytes(3))>>,
          <<GateBytes(<<1>>, 1, ConstantBytes(1))>>,
          <<>>, <<>>)
\* layer with two inputs and four outputs
Spread ==
    Gates(<<GateBytes(<<0, 1>>, 2, ConstantBytes(1)), GateBytes(<<1, 1>>, 3, ConstantBytes(2))>>,
          <<GateBytes(<<0>>, 1, ConstantBytes(2))>>,
          <<>>, <<>>)
\* the identity layer: o_0 += 1 * i_0
Identity == Gates(<<>>, <<GateBytes(<<0>>, 0, ConstantBytes(1))>>, <<>>, <<>>)
\* layer with one input and two outputs
Fork ==
    Gates(<<GateBytes(<<0, 0>>, 1, ConstantBytes(1))>>,
          <<GateBytes(<<0>>, 0, ConstantBytes(2))>>, <<>>, <<>>)

\* the circuits proved: the identity circuit; the two-layer multiplication;
\* one layer of mul and add gates; one layer with gates of every kind; a
\* layer of four inputs; a layer of four outputs; a layer of four inputs with
\* one add gate and no mul gate; two layers of two inputs; a layer of one
\* input under a layer of two; a layer of two inputs under a layer of four
ProveFiles ==
    {[magic |-> MAGIC_NUM, segs |-> <<SegmentRecord(1, 1, <<>>, Identity)>>,
      layers |-> <<0>>],
     [magic |-> MAGIC_NUM,
      segs |-> <<SegmentRecord(2, 1, <<>>, MulPair), SegmentRecord(1, 1, <<>>, Square)>>,
      layers |-> <<0, 1>>],
     [magic |-> MAGIC_NUM, segs |-> <<SegmentRecord(2, 2, <<>>, MulAdd)>>,
      layers |-> <<0>>],
     [magic |-> MAGIC_NUM, segs |-> <<SegmentRecord(2, 2, <<>>, AllKinds)>>,
      layers |-> <<0>>],
     [magic |-> MAGIC_NUM, segs |-> <<SegmentRecord(4, 2, <<>>, MulAddWide)>>,
      layers |-> <<0>>],
     [magic |-> MAGIC_NUM, segs |-> <<SegmentRecord(2, 4, <<>>, Spread)>>,
      layers |-> <<0>>],
     [magic |-> MAGIC_NUM, segs |-> <<SegmentRecord(4, 4, <<>>, AddHigh)>>,
      layers |-> <<0>>],
     [magic |-> MAGIC_NUM, segs |-> <<SegmentRecord(2, 2, <<>>, MulAdd)>>,
      layers |-> <<0, 0>>],
     [magic |-> MAGIC_NUM,
      segs |-> <<SegmentRecord(1, 2, <<>>, Fork), SegmentRecord(2, 2, <<>>, MulAdd)>>,
      layers |-> <<0, 1>>],
     [magic |-> MAGIC_NUM,
      segs |-> <<SegmentRecord(2, 4, <<>>, Spread), SegmentRecord(4, 2, <<>>, MulAddWide)>>,
      layers |-> <<0, 1>>]}

\* Circuit::load_circuit on a file of ProveFiles; the circuit is object 1
CallLoadProveCircuit ==
    /\ pc = "start"
    /\ \E f \in ProveFiles :
          \E prios \in LayerOrders(RecursiveCircuit_load(FileBytes(f)).val, 1) :
              /\ rc' = RecursiveCircuit_load(FileBytes(f)).val
              /\ heap' = <<flatten(RecursiveCircuit_load(FileBytes(f)).val, prios, 1).circuit>>
              /\ log' = Call("load_circuit", 1, FileBytes(f), "ok", <<>>)
    /\ pc' = "ready"
    /\ UNCHANGED <<reader, last, transcript, prover>>

\* c.set_random_input_for_test() on the circuit just loaded
CallSetProveInput ==
    /\ pc = "ready"
    /\ log.op = "load_circuit"
    /\ \E input_vals \in [1..Pow2(heap[1].layers[1].input_var_num) -> RandomValues] :
          HeapCall("set_random_input_for_test", 1, input_vals,
                   set_random_input_for_test(heap, 1, input_vals, transcript))

\* prover.prepare_mem(&c) once the circuit with its input is evaluated
CallPrepareMem ==
    /\ pc = "ready"
    /\ prover.at = "none"
    /\ log.op = "evaluate"
    /\ log.prev = "set_random_input_for_test"
    /\ log.status = "ok"
    /\ prover' = prepare_mem(heap[log.obj], log.obj)
    /\ UNCHANGED <<pc, reader, last, rc, heap, transcript, log>>

\* gkr_prove up to its loop: without a layer, layers.last().unwrap() panics
GkrProveBegin ==
    /\ pc = "ready"
    /\ prover.at = "mem"
    /\ IF heap[prover.obj].layers = <<>>
       THEN pc' = "panic" /\ UNCHANGED <<prover, transcript>>
       ELSE \E rz0 \in [1..heap[prover.obj].layers[Len(heap[prover.obj].layers)].output_var_num
                            -> ChallengeValues] :
               /\ prover' = GkrInit(prover, heap[prover.obj], rz0)
               /\ transcript' = transcript + Len(rz0)
               /\ pc' = IF Len(heap[prover.obj].layers[Len(heap[prover.obj].layers)].output_vals)
                            = Pow2(Len(rz0))
                        THEN "proving" ELSE "panic"
    /\ UNCHANGED <<reader, last, rc, heap, log>>

\* the pc after a step of the helper that left st
AfterStep(st) == IF st.status = "ok" THEN "proving" ELSE st.status

\* sumcheck_prove_gkr_layer up to its first round: the helper is made and
\* the table of phase X prepared
SumcheckBegin ==
    /\ pc = "proving"
    /\ prover.at = "layer"
    /\ LET st == prepare_g_x_vals(
                     SumcheckGkrHelper_new(LayerIdx(prover), LayerOf(prover).input_var_num,
                         LayerOf(prover).output_var_num, prover.rz0, prover.rz1,
                         prover.alpha, prover.beta),
                     prover.sp, LayerOf(prover))
       IN  /\ prover' = [Stepped(prover, st, "x") EXCEPT
                            !.var_idx = 0, !.polys = <<>>,
                            !.events = @ \o <<Event("sumcheck", LayerIdx(prover))>>]
           /\ pc' = AfterStep(st)
    /\ UNCHANGED <<reader, last, rc, heap, transcript, log>>

\* one round of sumcheck_prove_gkr_layer: the helper's three evaluations
\* are sent, a challenge is drawn and handed to the helper
SumcheckRound ==
    /\ pc = "proving"
    /\ prover.at \in {"x", "y"}
    /\ prover.var_idx < (IF prover.at = "x" THEN 1 ELSE 2) * prover.helper.input_var_num
    /\ \E r \in ChallengeValues :
          LET p == poly_evals_at(prover.helper, prover.sp, LayerOf(prover),
                                 prover.var_idx, 2)
              st == receive_challenge(prover.helper, prover.sp, LayerOf(prover),
                                      prover.var_idx, r)
          IN  /\ prover' = [Stepped(prover, st, prover.at) EXCEPT
                               !.var_idx = @ + 1,
                               !.polys = Append(@, [phase |-> prover.at,
                                                    evals |-> p.evals, r |-> r,
                                                    var_idx |-> prover.var_idx,
                                                    before |-> prover.sp,
                                                    after |-> st.sp])]
              /\ pc' = IF p.status = "ok" THEN AfterStep(st) ELSE p.status
    /\ transcript' = transcript + 1
    /\ UNCHANGED <<reader, last, rc, heap, log>>

\* between the phases of sumcheck_prove_gkr_layer: v_rx is the helper's
\* vx_claim, and the table of phase Y is prepared with it
SumcheckPhaseY ==
    /\ pc = "proving"
    /\ prover.at = "x"
    /\ prover.var_idx = prover.helper.input_var_num
    /\ LET st == prepare_h_y_vals(prover.helper, prover.sp, LayerOf(prover),
                                  vx_claim(prover.sp))
       IN  /\ prover' = [Stepped(prover, st, "y") EXCEPT !.v_rx = vx_claim(prover.sp)]
           /\ pc' = AfterStep(st)
    /\ UNCHANGED <<reader, last, rc, heap, transcript, log>>

\* the end of sumcheck_prove_gkr_layer, v_ry being the helper's vy_claim,
\* and the rest of the iteration of gkr_prove's loop; after layer 0
\* gkr_prove returns
GkrLayerEnd ==
    /\ pc = "proving"
    /\ prover.at = "y"
    /\ prover.var_idx = 2 * prover.helper.input_var_num
    /\ \E alpha, beta \in ChallengeValues :
          prover' = GkrLayerDone(prover, vy_claim(prover.sp), alpha, beta)
    /\ transcript' = transcript + 2
    /\ pc' = IF prover.pos = Len(prover.order) THEN "proved" ELSE "proving"
    /\ UNCHANGED <<reader, last, rc, heap, log>>

NextProve ==
    \/ CallLoadProveCircuit
    \/ CallSetProveInput
    \/ CallEvaluate
    \/ CallPrepareMem
    \/ GkrProveBegin
    \/ SumcheckBegin
    \/ SumcheckRound
    \/ SumcheckPhaseY
    \/ GkrLayerEnd

SpecProve == InitLoad /\ [][NextProve]_vars

(***************************************************************************)
(* Multilinear extensions, written from their definition: the value at r   *)
(* of the multilinear polynomial with the values vals on the cube is the   *)
(* sum over the indices x of eq(r, x) * vals[x], eq(r, x) being the        *)
(* product over the bits j of x of r[j] where the bit is 1 and 1 - r[j]    *)
(* where it is 0.                                                          *)
(***************************************************************************)
\* bit j (from 0) of x
Bit(x, j) == (x \div Pow2(j)) % 2

\* eq(r, x) over the first n elements of r
RECURSIVE EqAt(_, _, _)
EqAt(r, x, n) ==
    IF n = 0 THEN 1
    ELSE FMul(EqAt(r, x, n - 1), IF Bit(x, n - 1) = 1 THEN r[n] ELSE FSub(1, r[n]))

\* the sum over the indices below m of eq(r, x) * vals[x], in lane k
RECURSIVE MleSum(_, _, _, _)
MleSum(vals, r, k, m) ==
    IF m = 0 THEN 0
    ELSE FAdd(MleSum(vals, r, k, m - 1), FMul(EqAt(r, m - 1, Len(r)), vals[m][k]))

Mle(vals, r, k) == MleSum(vals, r, k, Pow2(Len(r)))

\* alpha * eq(rz0, o) + beta * eq(rz1, o) for the helper h
Eqz(h, o) ==
    FAdd(FMul(h.alpha, EqAt(h.rz0, o, Len(h.rz0))), FMul(h.beta, EqAt(h.rz1, o, Len(h.rz1))))

\* the claim a layer's sumcheck starts from: alpha * V(rz0) + beta * V(rz1),
\* V being the multilinear extension of the layer's output
IncomingClaim(c, h, k) ==
    FAdd(FMul(h.alpha, Mle(EvaluatedInto(c, h.layer + 1), h.rz0, k)),
         FMul(h.beta, Mle(EvaluatedInto(c, h.layer + 1), h.rz1, k)))

\* the sum over the first n gates of a list of eqz(o_id) times what the gate
\* adds to its output slot
RECURSIVE WeightedSum(_, _, _, _, _, _)
WeightedSum(h, input_vals, kind, gates, n, k) ==
    IF n = 0 THEN 0
    ELSE FAdd(WeightedSum(h, input_vals, kind, gates, n - 1, k),
              FMul(Eqz(h, gates[n].o_id), GateValue(input_vals, kind, gates[n], k)))

\* the sum over the first n add gates of eqz(o_id) * eq(rx, i_ids[0]) * coef
RECURSIVE AddAtRx(_, _, _, _)
AddAtRx(h, gates, n, k) ==
    IF n = 0 THEN 0
    ELSE FAdd(AddAtRx(h, gates, n - 1, k),
              FMul(FMul(Eqz(h, gates[n].o_id), EqAt(h.rx, gates[n].i_ids[1], Len(h.rx))),
                   gates[n].coef[k] % FieldOrder))

\* p(0) + p(1) of round j of the layer
Sum01(polys, j, k) == FAdd(polys[j].evals[1][k], polys[j].evals[2][k])

\* twice the value at round j's challenge r of the polynomial of degree 2
\* through (0, p(0)), (1, p(1)), (2, p(2)):
\* p(0) (r - 1)(r - 2) - 2 p(1) r (r - 2) + p(2) r (r - 1)
TwiceAtChallenge(polys, j, k) ==
    FSub(FAdd(FMul(polys[j].evals[1][k], FMul(FSub(polys[j].r, 1), FSub(polys[j].r, 2))),
              FMul(polys[j].evals[3][k], FMul(polys[j].r, FSub(polys[j].r, 1)))),
         FMul(FMul(2, polys[j].evals[2][k]), FMul(polys[j].r, FSub(polys[j].r, 2))))

\* round j continues round j - 1
Chained(polys, j, k) == FMul(2, Sum01(polys, j, k)) = TwiceAtChallenge(polys, j - 1, k)

\* the layer the helper h was made for
HelperLayer(h) == heap[prover.obj].layers[h.layer + 1]

\* the prover has sent round polynomials and has not panicked
InSumcheck == pc \in {"proving", "proved"} /\ prover.at \in {"x", "y", "layer", "done"}

(***************************************************************************)
(* C16.  In every round of both phases of a layer's sumcheck, the three    *)
(* evaluations [p(0), p(1), p(2)] the prover sends satisfy: p(0) + p(1) is *)
(* the previous round's polynomial of degree 2 at the challenge drawn      *)
(* after it; in the first round of phase X it is the layer's incoming      *)
(* claim alpha * V(rz0) + beta * V(rz1), and in the first round of phase Y *)
(* it is the claim phase X left, the last polynomial of phase X at its     *)
(* challenge.                                                              *)
(***************************************************************************)
C16_SumcheckRounds ==
    InSumcheck =>
        \A j \in 1..Len(prover.polys) : \A k \in Lanes :
            IF j = 1
            THEN Sum01(prover.polys, j, k) = IncomingClaim(heap[prover.obj], prover.helper, k)
            ELSE Chained(prover.polys, j, k)

(***************************************************************************)
(* C16, as the code has it.  Within a phase, p(0) + p(1) of a round is the *)
(* previous round's polynomial at its challenge.  In the first round of    *)
(* phase X, p(0) + p(1) is the incoming claim less what the const and uni  *)
(* gates add to the output, weighted by alpha * eq(rz0, o_id) +            *)
(* beta * eq(rz1, o_id).  In the first round of phase Y, p(0) + p(1) is    *)
(* the last polynomial of phase X at its challenge less v_rx times the sum *)
(* over the add gates of (alpha * eq(rz0, o_id) + beta * eq(rz1, o_id)) *  *)
(* eq(rx, i_ids[0]) * coef.                                                *)
(***************************************************************************)
C16_RoundsChain ==
    InSumcheck =>
        \A j \in 1..Len(prover.polys) : \A k \in Lanes :
            IF j = 1
            THEN FAdd(Sum01(prover.polys, j, k),
                      FAdd(WeightedSum(prover.helper, HelperLayer(prover.helper).input_vals,
                               "const_", HelperLayer(prover.helper).const_,
                               Len(HelperLayer(prover.helper).const_), k),
                           WeightedSum(prover.helper, HelperLayer(prover.helper).input_vals,
                               "uni", HelperLayer(prover.helper).uni,
                               Len(HelperLayer(prover.helper).uni), k)))
                     = IncomingClaim(heap[prover.obj], prover.helper, k)
            ELSE IF j = prover.helper.input_var_num + 1
            THEN FMul(2, FAdd(Sum01(prover.polys, j, k),
                              FMul(prover.v_rx[k],
                                   AddAtRx(prover.helper, HelperLayer(prover.helper).add,
                                           Len(HelperLayer(prover.helper).add), k))))
                     = TwiceAtChallenge(prover.polys, j - 1, k)
            ELSE Chained(prover.polys, j, k)

\* both phases of a layer of four inputs with mul and add gates have run
\* their two rounds each, with sums that are not zero and lanes that differ
C16_Witness ==
    /\ InSumcheck
    /\ prover.at = "y"
    /\ Len(prover.polys) = 4
    /\ HelperLayer(prover.helper).add # <<>>
    /\ \A j \in 1..4 : Sum01(prover.polys, j, 1) # 0
    /\ prover.polys[2].evals[3][1] # prover.polys[2].evals[3][SIMD_SIZE]

\* the sumcheck of a layer has read v_rx, and has ended when the prover is at
\* the next layer or done
ClaimRead ==
    /\ pc \in {"proving", "proved"}
    /\ prover.at \in {"y", "layer", "done"}
    /\ prover.helper.layer >= 0

SumcheckEnded == ClaimRead /\ prover.at \in {"layer", "done"}

(***************************************************************************)
(* C17.  After the n challenges of phase X, vx_claim is the multilinear    *)
(* extension of the layer's input_vals at rx, bit j of an index going with *)
(* the j-th challenge, and after the n challenges of phase Y, vy_claim is  *)
(* that extension at ry, for every input vector and challenge sequence.    *)
(***************************************************************************)
C17_ClaimsAreEvaluations ==
    ClaimRead =>
        \A k \in Lanes :
            /\ prover.v_rx[k]
                   = Mle(HelperLayer(prover.helper).input_vals, prover.helper.rx, k)
            /\ SumcheckEnded =>
                   prover.v_ry[k]
                       = Mle(HelperLayer(prover.helper).input_vals, prover.helper.ry, k)

(***************************************************************************)
(* C18.  For a layer with input_var_num = 0 both phases run no round, and  *)
(* vx_claim and vy_claim are the layer's one input value input_vals[0],    *)
(* whatever the scratchpad held before.                                    *)
(***************************************************************************)
C18_TrivialClaims ==
    (ClaimRead /\ prover.helper.input_var_num = 0) =>
        /\ prover.polys = <<>>
        /\ prover.v_rx = HelperLayer(prover.helper).input_vals[1]
        /\ SumcheckEnded => prover.v_ry = HelperLayer(prover.helper).input_vals[1]

\* what gkr_prove does from layer l (from 0) down to layer 0
RECURSIVE LayerEvents(_)
LayerEvents(l) ==
    IF l < 0 THEN <<>>
    ELSE <<Event("sumcheck", l), Event("sumcheck_end", l), Event("alpha", l),
           Event("beta", l)>> \o LayerEvents(l - 1)

\* what gkr_prove does on the circuit c
ProveEvents(c) ==
    [k \in 1..c.layers[Len(c.layers)].output_var_num |-> Event("rz0", Len(c.layers) - 1)]
        \o <<Event("claimed_v", Len(c.layers) - 1)>>
        \o LayerEvents(Len(c.layers) - 1)

\* the challenges a layer's sumcheck and the two draws after it take
RECURSIVE DrawsDownTo(_, _)
DrawsDownTo(c, l) ==
    IF l > Len(c.layers) THEN 0
    ELSE 2 * c.layers[l].input_var_num + 2 + DrawsDownTo(c, l + 1)

IsPrefix(s, t) == Len(s) <= Len(t) /\ s = SubSeq(t, 1, Len(s))

(***************************************************************************)
(* C19.  gkr_prove draws output_var_num challenges of the last layer for   *)
(* rz0, sets rz1 to as many zeros, alpha to 1 and beta to 0, and computes  *)
(* claimed_v as the multilinear extension of the last layer's output_vals  *)
(* at rz0, all before a layer is reduced; it takes the layers from the     *)
(* last down to layer 0, running each layer's sumcheck first and drawing   *)
(* the two challenges alpha and beta only after it; what it returns as rz0 *)
(* and rz1 are the rx and ry of layer 0's sumcheck, each of                *)
(* layers[0].input_var_num elements.                                       *)
(***************************************************************************)
C19_ProveOrder ==
    (pc \in {"proving", "proved"} /\ prover.at \in {"layer", "x", "y", "done"}) =>
        LET c == heap[prover.obj]
            last_layer == c.layers[Len(c.layers)]
        IN  /\ IsPrefix(prover.events, ProveEvents(c))
            /\ prover.at \in {"x", "y"} =>
                   prover.events[Len(prover.events)] = Event("sumcheck", LayerIdx(prover))
            /\ prover.helper.layer = -1 =>
                   \A k \in Lanes :
                       prover.claimed_v[k] = Mle(last_layer.output_vals, prover.rz0, k)
            /\ prover.helper.layer = Len(c.layers) - 1 =>
                   \A k \in Lanes :
                       prover.claimed_v[k] = Mle(last_layer.output_vals, prover.helper.rz0, k)
            /\ (prover.pos = 1 /\ prover.at = "layer") =>
                   /\ Len(prover.rz0) = last_layer.output_var_num
                   /\ prover.rz1 = Zeros(last_layer.output_var_num)
                   /\ prover.alpha = 1
                   /\ prover.beta = 0
                   /\ transcript = log.drawn + last_layer.output_var_num
            /\ prover.at = "done" =>
                   /\ prover.events = ProveEvents(c)
                   /\ prover.helper.layer = 0
                   /\ prover.rz0 = prover.helper.rx
                   /\ prover.rz1 = prover.helper.ry
                   /\ Len(prover.rz0) = c.layers[1].input_var_num
                   /\ Len(prover.rz1) = c.layers[1].input_var_num
                   /\ transcript = log.drawn + last_layer.output_var_num + DrawsDownTo(c, 1)

\* gkr_prove has returned from a circuit of two layers whose last layer has
\* two outputs, with a claim that is not zero
C19_Witness ==
    /\ pc = "proved"
    /\ prover.at = "done"
    /\ Len(heap[prover.obj].layers) = 2
    /\ heap[prover.obj].layers[2].output_var_num = 1
    /\ Len(prover.rz0) = 1
    /\ prover.claimed_v[1] # 0

(***************************************************************************)
(* C20.  On every circuit of at least one layer that is flattened, given   *)
(* its input and evaluated, with a scratchpad made for the circuit's       *)
(* largest input and output variable counts, gkr_prove returns: the prover *)
(* never fails, whatever the layers' input_var_num and output_var_num are, *)
(* 0, 1 and 2 included.                                                    *)
(***************************************************************************)
C20_ProverNeverFails ==
    prover.at # "none" => pc \notin {"panic", "undefined"}

\* the helper gkr_prove makes for the layer it is at
LayerHelper(p) ==
    SumcheckGkrHelper_new(LayerIdx(p), LayerOf(p).input_var_num, LayerOf(p).output_var_num,
                          p.rz0, p.rz1, p.alpha, p.beta)

\* the step of the layer's sumcheck that comes next indexes within the
\* scratchpad's vectors
PrepareXInBounds ==
    (pc = "proving" /\ prover.at = "layer") =>
        prepare_g_x_vals(LayerHelper(prover), prover.sp, LayerOf(prover)).status = "ok"

PrepareYInBounds ==
    (pc = "proving" /\ prover.at = "x" /\ prover.var_idx = prover.helper.input_var_num) =>
        prepare_h_y_vals(prover.helper, prover.sp, LayerOf(prover),
                         vx_claim(prover.sp)).status = "ok"

RoundInBounds ==
    (/\ pc = "proving"
     /\ prover.at \in {"x", "y"}
     /\ prover.var_idx < (IF prover.at = "x" THEN 1 ELSE 2) * prover.helper.input_var_num) =>
        /\ poly_evals_at(prover.helper, prover.sp, LayerOf(prover),
                         prover.var_idx, 2).status = "ok"
        /\ \A r \in ChallengeValues :
               receive_challenge(prover.helper, prover.sp, LayerOf(prover),
                                 prover.var_idx, r).status = "ok"

(***************************************************************************)
(* C21.  A scratchpad made by GkrScratchpad::new for the largest           *)
(* input_var_num and output_var_num of the circuit's layers is large       *)
(* enough for every layer: in prepare_g_x_vals, in prepare_h_y_vals and in *)
(* every round, every index into v_evals, hg_evals, gate_exists, the three *)
(* eq tables and the two half tables is below the vector's length.         *)
(***************************************************************************)
C21_ScratchpadLargeEnough == PrepareXInBounds /\ RoundInBounds /\ PrepareYInBounds

(***************************************************************************)
(* The sumcheck of one layer as a function of the scratchpad it is given.  *)
(***************************************************************************)
\* the rounds of one phase from round var_idx on, rs being the challenges
\* the transcript returns: x.st is the helper with its scratchpad, x.polys
\* the evaluations sent so far
RECURSIVE Rounds(_, _, _, _)
Rounds(x, layer, var_idx, rs) ==
    IF rs = <<>> \/ x.st.status # "ok" THEN x
    ELSE Rounds([st |-> receive_challenge(x.st.self, x.st.sp, layer, var_idx, Head(rs)),
                 polys |-> Append(x.polys,
                               poly_evals_at(x.st.self, x.st.sp, layer, var_idx, 2).evals)],
                layer, var_idx + 1, Tail(rs))

\* the end of the layer's sumcheck: what it has sent and what it returns
LayerResult(y, v_rx) ==
    [status |-> y.st.status, polys |-> y.polys, rx |-> y.st.self.rx, ry |-> y.st.self.ry,
     v_rx |-> v_rx, v_ry |-> vy_claim(y.st.sp)]

\* phase Y after phase X has left x
PhaseY(x, layer, rs) ==
    LayerResult(
        Rounds([st |-> IF x.st.status # "ok" THEN x.st
                       ELSE prepare_h_y_vals(x.st.self, x.st.sp, layer, vx_claim(x.st.sp)),
                polys |-> x.polys],
               layer, layer.input_var_num, rs),
        vx_claim(x.st.sp))

\* sumcheck_prove_gkr_layer with the challenges rs, input_var_num of them
\* for each phase
sumcheck_prove_gkr_layer(layer, idx, rz0, rz1, alpha, beta, rs, sp) ==
    PhaseY(Rounds([st |-> prepare_g_x_vals(
                              SumcheckGkrHelper_new(idx, layer.input_var_num,
                                  layer.output_var_num, rz0, rz1, alpha, beta),
                              sp, layer),
                   polys |-> <<>>],
                  layer, 0, SubSeq(rs, 1, layer.input_var_num)),
           layer, Drop(rs, layer.input_var_num))

\* a scratchpad of the lengths of sp in which every value is v and every
\* flag is b
Refilled(sp, v, b) ==
    [v_evals |-> [k \in 1..Len(sp.v_evals) |-> Broadcast(v)],
     hg_evals_5 |-> [k \in 1..Len(sp.hg_evals_5) |-> Broadcast(v)],
     eq_evals_at_rx |-> [k \in 1..Len(sp.eq_evals_at_rx) |-> v],
     eq_evals_at_rz0 |-> [k \in 1..Len(sp.eq_evals_at_rz0) |-> v],
     eq_evals_at_rz1 |-> [k \in 1..Len(sp.eq_evals_at_rz1) |-> v],
     eq_evals_first_half |-> [k \in 1..Len(sp.eq_evals_first_half) |-> v],
     eq_evals_second_half |-> [k \in 1..Len(sp.eq_evals_second_half) |-> v],
     gate_exists_5 |-> [k \in 1..Len(sp.gate_exists_5) |-> b]]

\* scratchpads of the lengths of sp: a new one, and two left with contents
Scratchpads(sp) == {Refilled(sp, 0, FALSE), Refilled(sp, 7, TRUE), Refilled(sp, 1, FALSE)}

\* the layer's sumcheck that has ended, run again on the scratchpad sp0
Replayed(sp0) ==
    sumcheck_prove_gkr_layer(HelperLayer(prover.helper), prover.helper.layer,
        prover.helper.rz0, prover.helper.rz1, prover.helper.alpha, prover.helper.beta,
        [j \in 1..Len(prover.polys) |-> prover.polys[j].r], sp0)

\* what the layer's sumcheck that has ended has sent and returned
Emitted ==
    [status |-> "ok", polys |-> [j \in 1..Len(prover.polys) |-> prover.polys[j].evals],
     rx |-> prover.helper.rx, ry |-> prover.helper.ry,
     v_rx |-> prover.v_rx, v_ry |-> prover.v_ry]

(***************************************************************************)
(* C22.  The scratchpad's contents are overwritten per layer: a layer's    *)
(* sumcheck run on another scratchpad of the same lengths, whatever it     *)
(* holds, with the same rz0, rz1, alpha, beta and challenges, sends the    *)
(* same round polynomials and returns the same rx, ry, v_rx and v_ry.      *)
(***************************************************************************)
C22_ScratchpadOverwritten ==
    SumcheckEnded => \A sp0 \in Scratchpads(prover.sp) : Replayed(sp0) = Emitted

(***************************************************************************)
(* The packed Mersenne field of m31_avx.rs: AVXM31.  A packed value is the *)
(* sequence of its lanes, lane k of the code being element k + 1.  A lane  *)
(* is LANE_BITS wide, in place of 32 bits, and the modulus is              *)
(* 2^(LANE_BITS - 1) - 1, in place of 2^31 - 1: the code's shifts by 31    *)
(* are shifts by LANE_BITS - 1, and a double lane of the code's 64 bits    *)
(* has 2 * LANE_BITS bits.  Every intrinsic wraps at its lane's width.     *)
(***************************************************************************)
\* M31_PACK_SIZE: the lanes of a packed value, two to a double lane
M31_PACK_SIZE == 2 * PACK_PAIRS

PackLanes == 1..M31_PACK_SIZE

LaneModulus == Pow2(LANE_BITS)

\* M31_MOD
M31_MOD == Pow2(LANE_BITS - 1) - 1

\* _mm256_set1_epi32
mm256_set1_epi32(a) == [k \in PackLanes |-> a % LaneModulus]

\* PACKED_MOD and PACKED_0
PACKED_MOD == mm256_set1_epi32(M31_MOD)

PACKED_0 == mm256_set1_epi32(0)

\* the bitwise and of two naturals
RECURSIVE BitAnd(_, _)
BitAnd(a, b) ==
    IF a = 0 \/ b = 0 THEN 0
    ELSE (a % 2) * (b % 2) + 2 * BitAnd(a \div 2, b \div 2)

\* _mm256_add_epi32 and _mm256_sub_epi32: lane by lane, wrapping
mm256_add_epi32(a, b) == [k \in PackLanes |-> (a[k] + b[k]) % LaneModulus]

mm256_sub_epi32(a, b) == [k \in PackLanes |-> (a[k] + LaneModulus - b[k]) % LaneModulus]

\* the lane as a signed number
Signed(a) == IF a >= Pow2(LANE_BITS - 1) THEN a - LaneModulus ELSE a

\* the signed minimum _mm256_min_epi32, which the code does not use
mm256_min_epi32(a, b) == [k \in PackLanes |-> IF Signed(a[k]) <= Signed(b[k]) THEN a[k] ELSE b[k]]

\* _mm256_min_epu32: the minimum of the lanes as unsigned numbers
mm256_min_epu32(a, b) == [k \in PackLanes |-> IF a[k] <= b[k] THEN a[k] ELSE b[k]]

\* _mm256_and_si256 and _mm256_andnot_si256 ((NOT a) AND b)
mm256_and_si256(a, b) == [k \in PackLanes |-> BitAnd(a[k], b[k])]

mm256_andnot_si256(a, b) == [k \in PackLanes |-> BitAnd(LaneModulus - 1 - a[k], b[k])]

\* _mm256_cmpeq_epi32: all ones in the lanes that are equal
mm256_cmpeq_epi32(a, b) == [k \in PackLanes |-> IF a[k] = b[k] THEN LaneModulus - 1 ELSE 0]

\* _mm256_srli_epi32 and _mm256_slli_epi32 by imm bits
mm256_srli_epi32(a, imm) == [k \in PackLanes |-> a[k] \div Pow2(imm)]

mm256_slli_epi32(a, imm) == [k \in PackLanes |-> (a[k] * Pow2(imm)) % LaneModulus]

\* the double lanes of a packed value, the even lane in the low half, and
\* the packed value of a sequence of double lanes
DoubleLanes(a) == [j \in 1..PACK_PAIRS |-> a[2 * j - 1] + a[2 * j] * LaneModulus]

FromDoubleLanes(q) ==
    [k \in PackLanes |->
        IF k % 2 = 1 THEN q[(k + 1) \div 2] % LaneModulus
        ELSE (q[k \div 2] \div LaneModulus) % LaneModulus]

\* _mm256_srli_epi64 and _mm256_slli_epi64 by imm bits
mm256_srli_epi64(a, imm) ==
    FromDoubleLanes([j \in 1..PACK_PAIRS |-> DoubleLanes(a)[j] \div Pow2(imm)])

mm256_slli_epi64(a, imm) ==
    FromDoubleLanes([j \in 1..PACK_PAIRS |->
        (DoubleLanes(a)[j] * Pow2(imm)) % (LaneModulus * LaneModulus)])

\* _mm256_mul_epu32: in every double lane, the product of the low halves
mm256_mul_epu32(a, b) ==
    FromDoubleLanes([j \in 1..PACK_PAIRS |-> a[2 * j - 1] * b[2 * j - 1]])

\* _mm256_blend_epi32::<0b10101010>: the odd lanes of b, the even lanes of a
mm256_blend_epi32(a, b) == [k \in PackLanes |-> IF k % 2 = 0 THEN b[k] ELSE a[k]]

\* movehdup_epi32: every odd lane copied into the even lane below it
movehdup_epi32(x) == [k \in PackLanes |-> IF k % 2 = 1 THEN x[k + 1] ELSE x[k]]

\* a faulty reduction that drops the bit shifted out
mod_reduce_epi32_masked(x) == mm256_and_si256(x, PACKED_MOD)

\* mod_reduce_epi32
mod_reduce_epi32(x) ==
    mm256_add_epi32(mm256_and_si256(x, PACKED_MOD), mm256_srli_epi32(x, LANE_BITS - 1))

\* AVXM31::pack_full
pack_full(x) == mm256_set1_epi32(x)

\* AVXM31::mul_by_2
mul_by_2(self) == mod_reduce_epi32(mm256_slli_epi32(self, 1))

\* AVXM31::mul_by_5: double, quad and the sum, each reduced once
Mul5Quad(double) == mod_reduce_epi32(mm256_slli_epi32(double, 1))

mul_by_5(self) ==
    mod_reduce_epi32(
        mm256_add_epi32(self, Mul5Quad(mod_reduce_epi32(mm256_slli_epi32(self, 1)))))

\* AVXM31::mul_by_10
mul_by_10(self) == mul_by_2(mul_by_5(self))

\* Field::double for AVXM31
double(self) == mul_by_2(self)

\* the end of Mul: t = prod_hi + prod_lo, u = t - PACKED_MOD, min(t, u)
MulReduce(prod_hi, prod_lo) ==
    mm256_min_epu32(mm256_add_epi32(prod_hi, prod_lo),
                    mm256_sub_epi32(mm256_add_epi32(prod_hi, prod_lo), PACKED_MOD))

\* Mul once the two products are taken
MulBlend(prod_odd_dbl, prod_evn) ==
    MulReduce(mm256_blend_epi32(mm256_srli_epi64(prod_evn, LANE_BITS - 1), prod_odd_dbl),
              mm256_and_si256(
                  mm256_blend_epi32(prod_evn, mm256_slli_epi64(prod_odd_dbl, LANE_BITS - 1)),
                  PACKED_MOD))

\* impl Mul<&AVXM31> for AVXM31
AVXM31_mul(self, rhs) ==
    MulBlend(mm256_mul_epu32(mm256_srli_epi64(self, LANE_BITS - 1), movehdup_epi32(rhs)),
             mm256_mul_epu32(self, rhs))

\* Add with the signed minimum in place of the unsigned one
AVXM31_add_signed_min(self, rhs) ==
    mm256_min_epi32(mm256_add_epi32(self, rhs),
                    mm256_sub_epi32(mm256_add_epi32(self, rhs), PACKED_MOD))

\* impl Add<&AVXM31> for AVXM31
AVXM31_add(self, rhs) ==
    mm256_min_epu32(mm256_add_epi32(self, rhs),
                    mm256_sub_epi32(mm256_add_epi32(self, rhs), PACKED_MOD))

\* impl Neg for AVXM31
AVXM31_neg(self) ==
    mm256_andnot_si256(mm256_cmpeq_epi32(self, PACKED_0), mm256_sub_epi32(PACKED_MOD, self))

\* impl Sub<&AVXM31> for AVXM31
AVXM31_sub(self, rhs) ==
    mm256_min_epu32(mm256_sub_epi32(self, rhs),
                    mm256_add_epi32(mm256_sub_epi32(self, rhs), PACKED_MOD))

(***************************************************************************)
(* Calls on packed values: SpecM31.  The operands are the packed values    *)
(* whose lanes are a, b, a, b, ... and b, a, b, a, ..., for all a and b up *)
(* to the modulus: every pair of lane values meets in a lane, and the      *)
(* lanes of an operand differ.                                             *)
(***************************************************************************)
Packed(a, b) == [k \in PackLanes |-> IF k % 2 = 1 THEN a ELSE b]

LaneValues == 0..M31_MOD

\* the operands are drawn before the call
InitM31 ==
    /\ pc = "run"
    /\ reader = <<>>
    /\ last \in {[op |-> "operands", x |-> Packed(a, b), y |-> Packed(b, a), val |-> PACKED_0] :
                    a \in LaneValues, b \in LaneValues}
    /\ rc = NoCircuit
    /\ heap = <<>>
    /\ transcript = 0
    /\ log = NoLog
    /\ prover = NoProver

\* a call on the operands that returned val
PackedCall(op, val) ==
    /\ pc = "run"
    /\ last' = [last EXCEPT !.op = op, !.val = val]
    /\ pc' = "done"
    /\ UNCHANGED <<reader, rc, heap, transcript, log, prover>>

CallAdd == PackedCall("add", AVXM31_add(last.x, last.y))

CallSub == PackedCall("sub", AVXM31_sub(last.x, last.y))

CallNeg == PackedCall("neg", AVXM31_neg(last.x))

CallMul == PackedCall("mul", AVXM31_mul(last.x, last.y))

CallMulBy2 == PackedCall("mul_by_2", mul_by_2(last.x))

CallMulBy5 == PackedCall("mul_by_5", mul_by_5(last.x))

CallMulBy10 == PackedCall("mul_by_10", mul_by_10(last.x))

CallDouble == PackedCall("double", double(last.x))

NextM31 ==
    \/ CallAdd
    \/ CallSub
    \/ CallNeg
    \/ CallMul
    \/ CallMulBy2
    \/ CallMulBy5
    \/ CallMulBy10
    \/ CallDouble

SpecM31 == InitM31 /\ [][NextM31]_vars

\* every lane is in [0, p)
Canonical(x) == \A k \in PackLanes : x[k] < M31_MOD

\* the representative in [0, p) of the integer n, which may be negative
ModP(n) == (n + M31_MOD * M31_MOD) % M31_MOD

(***************************************************************************)
(* C23.  On packed values whose lanes are all canonical, Add, Sub and Neg  *)
(* act lane by lane, and every lane of the result is the canonical         *)
(* representative of (a + b) mod p, (a - b) mod p and (-a) mod p; x + (-x) *)
(* is the all-zero vector, and no lane of a result is p.                   *)
(***************************************************************************)
C23_AddSubNeg ==
    /\ (last.op = "add" /\ Canonical(last.x) /\ Canonical(last.y)) =>
           /\ \A k \in PackLanes : last.val[k] = ModP(last.x[k] + last.y[k])
           /\ last.y = AVXM31_neg(last.x) => last.val = PACKED_0
           /\ Canonical(last.val)
    /\ (last.op = "sub" /\ Canonical(last.x) /\ Canonical(last.y)) =>
           /\ \A k \in PackLanes : last.val[k] = ModP(last.x[k] - last.y[k])
           /\ Canonical(last.val)
    /\ (last.op = "neg" /\ Canonical(last.x)) =>
           /\ \A k \in PackLanes : last.val[k] = ModP(0 - last.x[k])
           /\ AVXM31_add(last.x, last.val) = PACKED_0
           /\ Canonical(last.val)

\* an addition whose sum wraps past p in one lane and not in the other, of
\* a value and its negative
C23_Witness ==
    /\ last.op = "add"
    /\ Canonical(last.x)
    /\ last.x[1] # last.x[2]
    /\ last.x[1] # 0
    /\ last.y = AVXM31_neg(last.x)
    /\ last.val = PACKED_0

(***************************************************************************)
(* C24.  For every canonical lane value x, mul_by_2, mul_by_5 and          *)
(* mul_by_10 return in that lane the canonical representative of 2x, 5x    *)
(* and 10x mod p, which is what the general multiplication by 2, 5 and 10  *)
(* returns, and double() is x + x; after every shift or add of these       *)
(* helpers one mod_reduce_epi32 leaves every lane below p.                 *)
(***************************************************************************)
C24_ShiftAndReduce ==
    Canonical(last.x) =>
        /\ last.op = "mul_by_2" =>
               /\ \A k \in PackLanes : last.val[k] = ModP(2 * last.x[k])
               /\ last.val = AVXM31_mul(last.x, pack_full(2))
        /\ last.op = "mul_by_5" =>
               /\ \A k \in PackLanes : last.val[k] = ModP(5 * last.x[k])
               /\ last.val = AVXM31_mul(last.x, pack_full(5))
               /\ Canonical(mul_by_2(last.x))
               /\ Canonical(Mul5Quad(mul_by_2(last.x)))
        /\ last.op = "mul_by_10" =>
               /\ \A k \in PackLanes : last.val[k] = ModP(10 * last.x[k])
               /\ last.val = AVXM31_mul(last.x, pack_full(10))
               /\ Canonical(mul_by_5(last.x))
        /\ last.op = "double" => last.val = AVXM31_add(last.x, last.x)
        /\ last.op \in {"mul_by_2", "mul_by_5", "mul_by_10", "double"} =>
               Canonical(last.val)

\* mul_by_10 of a value whose lanes differ and whose shifts overflow the
\* modulus: the result is neither zero nor 10x itself
C24_Witness ==
    /\ last.op = "mul_by_10"
    /\ Canonical(last.x)
    /\ last.x[1] # last.x[2]
    /\ \A k \in PackLanes : 2 * last.x[k] > M31_MOD
    /\ \A k \in PackLanes : last.val[k] # 0

(***************************************************************************)
(* The rounds of a layer's sumcheck as the prover's record has them:       *)
(* prover.polys[j] holds the evaluations sent in round j, the challenge    *)
(* drawn after them, and the scratchpad before the round and after it.     *)
(***************************************************************************)
\* the round's number within its phase
PhaseVarIdx(round) ==
    IF round.var_idx < prover.helper.input_var_num THEN round.var_idx
    ELSE round.var_idx - prover.helper.input_var_num

\* the pairs of the round: 2^(n - k - 1) in round k of a phase
EvalSize(round) == Pow2(prover.helper.input_var_num - PhaseVarIdx(round) - 1)

\* f of the round: the layer's input values in round 0 of a phase, the
\* folded buffer afterwards
RoundF(round) ==
    IF PhaseVarIdx(round) = 0 THEN HelperLayer(prover.helper).input_vals
    ELSE round.before.v_evals

\* x[2i] + t * (x[2i+1] - x[2i]) in lane k
LineAt(x, i, t, k) == FAdd(At(x, 2 * i)[k], FMul(t, FSub(At(x, 2 * i + 1)[k], At(x, 2 * i)[k])))

\* the sum over the pairs below m of (f line at t) * (hg line at t), in lane k
RECURSIVE RoundPoly(_, _, _, _, _)
RoundPoly(f, hg, m, t, k) ==
    IF m = 0 THEN 0
    ELSE FAdd(RoundPoly(f, hg, m - 1, t, k),
              FMul(LineAt(f, m - 1, t, k), LineAt(hg, m - 1, t, k)))

\* the sum over the pairs below m of (f_v_0 + f_v_1) * (hg_v_0 + hg_v_1)
RECURSIVE SumOfSums(_, _, _, _)
SumOfSums(f, hg, m, k) ==
    IF m = 0 THEN 0
    ELSE FAdd(SumOfSums(f, hg, m - 1, k),
              FMul(FAdd(At(f, 2 * m - 2)[k], At(f, 2 * m - 1)[k]),
                   FAdd(At(hg, 2 * m - 2)[k], At(hg, 2 * m - 1)[k])))

(***************************************************************************)
(* C25.  Every round sends [p(0), p(1), p(2)] of the round polynomial      *)
(* p(t) = sum over i < 2^(n-k-1) of (f[2i] + t (f[2i+1] - f[2i])) *        *)
(* (hg[2i] + t (hg[2i+1] - hg[2i])): the first two entries are the sums of *)
(* f_v_0 * hg_v_0 and of f_v_1 * hg_v_1, and the third, computed as        *)
(* 6 p1 + 3 p0 - 2 sum((f_v_0 + f_v_1)(hg_v_0 + hg_v_1)), is p(2); f is    *)
(* the layer's input values in round 0 of a phase and the folded buffer in *)
(* the later rounds.                                                       *)
(***************************************************************************)
C25_RoundPolynomial ==
    InSumcheck =>
        \A j \in 1..Len(prover.polys) : \A k \in Lanes :
            /\ \A t \in 0..2 :
                   prover.polys[j].evals[t + 1][k]
                       = RoundPoly(RoundF(prover.polys[j]), prover.polys[j].before.hg_evals_5,
                                   EvalSize(prover.polys[j]), t, k)
            /\ prover.polys[j].evals[3][k]
                   = FSub(FAdd(FMul(6, prover.polys[j].evals[2][k]),
                               FMul(3, prover.polys[j].evals[1][k])),
                          FMul(2, SumOfSums(RoundF(prover.polys[j]),
                                            prover.polys[j].before.hg_evals_5,
                                            EvalSize(prover.polys[j]), k)))

\* the second round of phase X of a layer of four inputs has read a folded
\* buffer that differs from the input values, and its three evaluations
\* are not zero and not all equal
C25_Witness ==
    /\ InSumcheck
    /\ Len(prover.polys) >= 2
    /\ prover.helper.input_var_num = 2
    /\ prover.polys[2].before.v_evals[1] # HelperLayer(prover.helper).input_vals[1]
    /\ \A t \in 1..3 : prover.polys[2].evals[t][1] # 0
    /\ prover.polys[2].evals[3][1] # prover.polys[2].evals[1][1]

\* eq_evals_at_primitive on the whole of r, into a table of 2^len(r) zeros
Direct(r, mul_factor) == eq_evals_at_primitive(r, mul_factor, Zeros(Pow2(Len(r)))).eq_evals

\* eq_eval_at on r, into a table of 2^len(r) entries and two half tables
\* large enough, all holding v
Split(r, mul_factor, v) ==
    eq_eval_at(r, mul_factor,
               [k \in 1..Pow2(Len(r)) |-> v],
               [k \in 1..Pow2(Len(r) \div 2) |-> v],
               [k \in 1..Pow2(Len(r) - Len(r) \div 2) |-> v])

\* the points of up to three elements
Points == UNION {[1..n -> ChallengeValues \cup {0, 1}] : n \in 0..3}

\* the first n entries of table are mul_factor * eq(r, i), as the direct
\* expansion has them
IsEqTable(table, r, mul_factor) ==
    /\ Len(table) >= Pow2(Len(r))
    /\ \A i \in 0..(Pow2(Len(r)) - 1) :
           /\ At(table, i) = FMul(mul_factor, EqAt(r, i, Len(r)))
           /\ At(table, i) = At(Direct(r, mul_factor), i)

(***************************************************************************)
(* C26.  The split-halves expansion equals the direct one: for every point *)
(* r and factor m, eq_eval_at leaves in eq_evals[i], for all i < 2^|r|,    *)
(* m times the product over j of r_j where bit j of i is 1 and 1 - r_j     *)
(* where it is 0, which is what eq_evals_at_primitive on the whole of r    *)
(* leaves; and after prepare_g_x_vals eq_evals_at_rz0[i] is                *)
(* alpha * eq(rz0, i) + beta * eq(rz1, i) for every i < 2^output_var_num,  *)
(* although both expansions go through the same two half tables.           *)
(***************************************************************************)
C26_SplitHalves ==
    /\ pc = "start" =>
           \A r \in Points : \A m \in {1, 3} : \A v \in {0, 7} :
               /\ Split(r, m, v).status = "ok"
               /\ IsEqTable(Split(r, m, v).eq_evals, r, m)
    /\ (pc = "proving" /\ prover.at = "x" /\ prover.var_idx = 0) =>
           /\ IsEqTable(prover.sp.eq_evals_at_rz1, prover.helper.rz1, prover.helper.beta)
           /\ Len(prover.helper.rz0) = prover.helper.output_var_num
           /\ \A i \in 0..(Pow2(prover.helper.output_var_num) - 1) :
                  At(prover.sp.eq_evals_at_rz0, i) = Eqz(prover.helper, i)
    /\ (/\ pc = "proving"
        /\ prover.at = "y"
        /\ prover.var_idx = prover.helper.input_var_num) =>
           IsEqTable(prover.sp.eq_evals_at_rx, prover.helper.rx, 1)

\* prepare_g_x_vals has filled the table of a layer of four outputs from a
\* point rz0 of two different elements, on the second layer proved of a
\* circuit, alpha and beta being challenges
C26_Witness ==
    /\ pc = "proving"
    /\ prover.at = "x"
    /\ prover.var_idx = 0
    /\ Len(prover.helper.rz0) = 2
    /\ prover.helper.rz0[1] # prover.helper.rz0[2]
    /\ prover.helper.beta # 0
    /\ prover.helper.rz1 # prover.helper.rz0
    /\ \A i \in 0..3 : At(prover.sp.eq_evals_at_rz0, i) # 0

\* the three evaluations of the round computed over every pair, none skipped
Unskipped(round) ==
    Reduced(PolySum(0, EvalSize(round), RoundF(round), round.before.hg_evals_5,
                    [i \in 1..Len(round.before.gate_exists_5) |-> TRUE],
                    <<SimdZero, SimdZero, SimdZero>>).acc)

\* no index of the round has a gate
NoGateAtAll(round) ==
    \A i \in 0..(2 * EvalSize(round) - 1) : ~At(round.before.gate_exists_5, i)

(***************************************************************************)
(* C27.  Skipping by gate_exists is sound: at the start of every round of  *)
(* either phase, gate_exists[i] = false implies bk_hg[i] = 0 for every     *)
(* index i below the round's evaluation size, so the three evaluations     *)
(* sent are those computed without skipping any pair; when gate_exists is  *)
(* false for every index of a round, [0, 0, 0] is sent.                    *)
(***************************************************************************)
C27_SkippingSound ==
    InSumcheck =>
        \A j \in 1..Len(prover.polys) :
            /\ \A i \in 0..(2 * EvalSize(prover.polys[j]) - 1) :
                   ~At(prover.polys[j].before.gate_exists_5, i)
                       => At(prover.polys[j].before.hg_evals_5, i) = SimdZero
            /\ prover.polys[j].evals = Unskipped(prover.polys[j])
            /\ NoGateAtAll(prover.polys[j])
                   => prover.polys[j].evals = <<SimdZero, SimdZero, SimdZero>>

\* a layer of four inputs with one add gate on input 2: the first round of
\* phase X has skipped pair 0 and not pair 1 and has sent a value that is
\* not zero, and a round of phase Y has found no gate at all
C27_Witness ==
    /\ InSumcheck
    /\ Len(prover.polys) >= 3
    /\ prover.helper.input_var_num = 2
    /\ NoGate(prover.polys[1].before.gate_exists_5, 0)
    /\ ~NoGate(prover.polys[1].before.gate_exists_5, 1)
    /\ prover.polys[1].evals[1][1] # 0
    /\ NoGateAtAll(prover.polys[3])
    /\ \E i \in 0..3 : At(prover.polys[3].before.v_evals, i) # SimdZero

\* x[2i] + (x[2i+1] - x[2i]) * r in every lane, from the vector x
FoldedFrom(x, i, r) == [k \in Lanes |-> LineAt(x, i, r, k)]

(***************************************************************************)
(* C28.  receive_challenge with the challenge r folds in place from length *)
(* 2m to m: for every i < m, bk_f[i] becomes f[2i] + (f[2i+1] - f[2i]) r   *)
(* (f being init_v in round 0 of a phase and bk_f otherwise), bk_hg[i]     *)
(* becomes hg[2i] + (hg[2i+1] - hg[2i]) r, and gate_exists[i] becomes      *)
(* gate_exists[2i] or gate_exists[2i+1], each from the values held before  *)
(* the fold: the update in ascending order never reads an entry it has     *)
(* already overwritten.                                                    *)
(***************************************************************************)
C28_FoldInPlace ==
    InSumcheck =>
        \A j \in 1..Len(prover.polys) :
            \A i \in 0..(EvalSize(prover.polys[j]) - 1) :
                /\ At(prover.polys[j].after.v_evals, i)
                       = FoldedFrom(RoundF(prover.polys[j]), i, prover.polys[j].r)
                /\ At(prover.polys[j].after.hg_evals_5, i)
                       = FoldedFrom(prover.polys[j].before.hg_evals_5, i, prover.polys[j].r)
                /\ At(prover.polys[j].after.gate_exists_5, i)
                       = (\/ At(prover.polys[j].before.gate_exists_5, 2 * i)
                          \/ At(prover.polys[j].before.gate_exists_5, 2 * i + 1))

\* the first fold of phase Y of a layer of four inputs has written entries
\* 0 and 1 of bk_hg, entry 0 from the entry 1 it overwrote afterwards, and
\* the second fold has read the buffer the first one left
C28_Witness ==
    /\ InSumcheck
    /\ Len(prover.polys) = 4
    /\ prover.helper.input_var_num = 2
    /\ At(prover.polys[3].before.hg_evals_5, 1) # SimdZero
    /\ At(prover.polys[3].after.hg_evals_5, 1) # At(prover.polys[3].before.hg_evals_5, 1)
    /\ At(prover.polys[3].after.hg_evals_5, 0) # At(prover.polys[3].before.hg_evals_5, 0)
    /\ At(prover.polys[4].after.v_evals, 0) # At(prover.polys[3].after.v_evals, 0)
    /\ At(prover.polys[4].after.hg_evals_5, 0) # SimdZero

(***************************************************************************)
(* The Plonk constraint system (plonk/src/constraint_system.rs).  A        *)
(* ConstraintSystem is a record of its five selector columns, its three    *)
(* columns of variable indexes and its witnesses; a call returns           *)
(* [status, cs, val], cs being the system as the call left it and status   *)
(* "panic" the abort of the process.  The system under construction is     *)
(* heap[1] and last is the call made on it.                                *)
(***************************************************************************)
\* the index of the variable init creates first, which holds zero
VariableZero == 0
\* the index of the variable init creates second, which holds one
VariableOne == 1

\* base^e by squaring
RECURSIVE FExp(_, _)
FExp(base, e) ==
    IF e = 0 THEN 1
    ELSE IF e % 2 = 1 THEN FMul(base, FExp(FMul(base, base), e \div 2))
    ELSE FExp(FMul(base, base), e \div 2)

\* Field::inv: None for zero, x^(p - 2) otherwise
inv(x) == IF x = 0 THEN [some |-> FALSE, val |-> 0]
          ELSE [some |-> TRUE, val |-> FExp(x, FieldOrder - 2)]

\* ConstraintSystem::default()
ConstraintSystem_default ==
    [q_l |-> <<>>, q_r |-> <<>>, q_o |-> <<>>, q_m |-> <<>>, q_c |-> <<>>,
     a |-> <<>>, b |-> <<>>, c |-> <<>>, variables |-> <<>>]

CsOk(cs, val) == [status |-> "ok", cs |-> cs, val |-> val]

CsPanic(cs) == [status |-> "panic", cs |-> cs, val |-> 0]

\* the call next on the system r has left, if r has not aborted
CsThen(r, next(_, _)) == IF r.status # "ok" THEN r ELSE next(r.cs, r.val)

\* Variables::new_variable: the witness is pushed and its index returned
new_variable(cs, f) == CsOk([cs EXCEPT !.variables = Append(@, f)], Len(cs.variables))

\* the five pushes on the selectors and the three on the columns
PushRow(cs, q_l, q_r, q_o, q_m, q_c, a, b, c) ==
    [cs EXCEPT !.q_l = Append(@, q_l), !.q_r = Append(@, q_r), !.q_o = Append(@, q_o),
               !.q_m = Append(@, q_m), !.q_c = Append(@, q_c),
               !.a = Append(@, a), !.b = Append(@, b), !.c = Append(@, c)]

\* ConstraintSystem::init
ConstraintSystem_init ==
    CsThen(new_variable(ConstraintSystem_default, 0), LAMBDA cs0, zero_var :
        CsThen(new_variable(cs0, 1), LAMBDA cs1, one_var :
            CsOk(PushRow(PushRow(cs1, 1, 0, 0, 0, 0, zero_var, zero_var, zero_var),
                         1, 0, 0, 0, FSub(0, 1), one_var, zero_var, zero_var), 0))).cs

\* ConstraintSystem::get_value: witnesses[index], a panic past the end
get_value(cs, index) ==
    IF index < Len(cs.variables) THEN CsOk(cs, At(cs.variables, index)) ELSE CsPanic(cs)

\* ConstraintSystem::constant_gate
constant_gate(cs, c) ==
    CsThen(new_variable(cs, c), LAMBDA cs1, var_c :
        CsOk(PushRow(cs1, 1, 0, 0, 0, FSub(0, c), var_c, VariableZero, VariableZero), var_c))

\* ConstraintSystem::assert_zero
assert_zero(cs, a) ==
    CsThen(get_value(cs, a), LAMBDA cs1, a_val :
        IF a_val # 0 THEN CsPanic(cs1)
        ELSE CsOk(PushRow(cs1, 1, 0, 0, 0, 0, a, VariableZero, VariableZero), 0))

\* ConstraintSystem::assert_one
assert_one(cs, a) ==
    CsThen(get_value(cs, a), LAMBDA cs1, a_val :
        IF a_val # 1 THEN CsPanic(cs1)
        ELSE CsOk(PushRow(cs1, 1, 0, FSub(0, 1), 0, 0, a, VariableZero, VariableZero), 0))

\* ConstraintSystem::assert_binary
assert_binary(cs, a) ==
    CsThen(get_value(cs, a), LAMBDA cs1, a_val :
        IF ~(a_val = 0 \/ a_val = 1) THEN CsPanic(cs1)
        ELSE CsOk(PushRow(cs1, FSub(0, 1), 0, 0, 1, 0, a, a, VariableZero), 0))

\* ConstraintSystem::assert_none_zero
assert_none_zero(cs, a) ==
    CsThen(get_value(cs, a), LAMBDA cs1, a_val :
        IF ~(a_val # 0) THEN CsPanic(cs1)
        ELSE IF ~inv(a_val).some THEN CsPanic(cs1)
        ELSE CsThen(new_variable(cs1, inv(a_val).val), LAMBDA cs2, a_inv_var :
                 CsOk(PushRow(cs2, 0, 0, FSub(0, 1), 1, 0, a, a_inv_var, VariableOne), 0)))

\* ConstraintSystem::assert_addition
assert_addition(cs, a, b, c) ==
    CsThen(get_value(cs, a), LAMBDA cs1, a_val :
        CsThen(get_value(cs1, b), LAMBDA cs2, b_val :
            CsThen(get_value(cs2, c), LAMBDA cs3, c_val :
                CsOk(PushRow(cs3, 1, 1, FSub(0, 1), 0, 0, a, b, c), 0))))

\* ConstraintSystem::addition_gate
addition_gate(cs, a, b) ==
    CsThen(get_value(cs, a), LAMBDA cs1, a_val :
        CsThen(get_value(cs1, b), LAMBDA cs2, b_val :
            CsThen(new_variable(cs2, FAdd(a_val, b_val)), LAMBDA cs3, c :
                CsThen(assert_addition(cs3, a, b, c), LAMBDA cs4, unit : CsOk(cs4, c)))))

\* ConstraintSystem::assert_subtraction
assert_subtraction(cs, a, b, c) == assert_addition(cs, c, b, a)

\* ConstraintSystem::subtraction_gate
subtraction_gate(cs, a, b) ==
    CsThen(get_value(cs, a), LAMBDA cs1, a_val :
        CsThen(get_value(cs1, b), LAMBDA cs2, b_val :
            CsThen(new_variable(cs2, FSub(a_val, b_val)), LAMBDA cs3, c :
                CsThen(assert_subtraction(cs3, a, b, c), LAMBDA cs4, unit : CsOk(cs4, c)))))

\* ConstraintSystem::assert_multiplication
assert_multiplication(cs, a, b, c) ==
    CsThen(get_value(cs, a), LAMBDA cs1, a_val :
        CsThen(get_value(cs1, b), LAMBDA cs2, b_val :
            CsThen(get_value(cs2, c), LAMBDA cs3, c_val :
                CsOk(PushRow(cs3, 0, 0, FSub(0, 1), 1, 0, a, b, c), 0))))

\* ConstraintSystem::multiplication_gate
multiplication_gate(cs, a, b) ==
    CsThen(get_value(cs, a), LAMBDA cs1, a_val :
        CsThen(get_value(cs1, b), LAMBDA cs2, b_val :
            CsThen(new_variable(cs2, FMul(a_val, b_val)), LAMBDA cs3, c :
                CsThen(assert_multiplication(cs3, a, b, c), LAMBDA cs4, unit : CsOk(cs4, c)))))

\* ConstraintSystem::assert_division
assert_division(cs, a, b, c) == assert_multiplication(cs, c, b, a)

\* ConstraintSystem::division_gate
division_gate(cs, a, b) ==
    CsThen(assert_none_zero(cs, b), LAMBDA cs0, unit0 :
        CsThen(get_value(cs0, a), LAMBDA cs1, a_val :
            CsThen(get_value(cs1, b), LAMBDA cs2, b_val :
                IF ~inv(b_val).some THEN CsPanic(cs2)
                ELSE CsThen(new_variable(cs2, FMul(a_val, inv(b_val).val)), LAMBDA cs3, c :
                         CsThen(assert_division(cs3, a, b, c), LAMBDA cs4, unit :
                             CsOk(cs4, c))))))

\* the gate equation on row index, as is_satisfied computes it
RowHolds(cs, index) ==
    FAdd(FAdd(FAdd(FAdd(FMul(At(cs.variables, At(cs.a, index)), At(cs.q_l, index)),
                        FMul(At(cs.variables, At(cs.b, index)), At(cs.q_r, index))),
                   FMul(At(cs.variables, At(cs.c, index)), At(cs.q_o, index))),
              FMul(FMul(At(cs.variables, At(cs.a, index)), At(cs.variables, At(cs.b, index))),
                   At(cs.q_m, index))),
         At(cs.q_c, index)) = 0

\* the row index can be read: the three columns have it and the variables
\* have what they name
RowReadable(cs, index) ==
    /\ index < Len(cs.a) /\ At(cs.a, index) < Len(cs.variables)
    /\ index < Len(cs.b) /\ At(cs.b, index) < Len(cs.variables)
    /\ index < Len(cs.c) /\ At(cs.c, index) < Len(cs.variables)

\* the loop of is_satisfied from row index on
RECURSIVE CheckRows(_, _, _)
CheckRows(cs, index, length) ==
    IF index = length THEN CsOk(cs, TRUE)
    ELSE IF ~RowReadable(cs, index) THEN CsPanic(cs)
    ELSE IF ~RowHolds(cs, index) THEN CsOk(cs, FALSE)
    ELSE CheckRows(cs, index + 1, length)

\* ConstraintSystem::is_satisfied, get_nv being the length of a selector
is_satisfied(cs) ==
    IF Len(cs.q_r) # Len(cs.q_l) THEN CsOk(cs, FALSE)
    ELSE IF Len(cs.q_o) # Len(cs.q_l) THEN CsOk(cs, FALSE)
    ELSE IF Len(cs.q_m) # Len(cs.q_l) THEN CsOk(cs, FALSE)
    ELSE IF Len(cs.q_c) # Len(cs.q_l) THEN CsOk(cs, FALSE)
    ELSE CheckRows(cs, 0, Len(cs.q_l))

(***************************************************************************)
(* The builder: init, then up to MaxGates calls on the system, on any      *)
(* variable index up to the first one past the end and on the values of    *)
(* GateValues.                                                             *)
(***************************************************************************)
GateValues == {0, 2, FieldOrder - 1}

VariableIndexes == 0..Len(heap[1].variables)

InitPlonk ==
    /\ pc = "run"
    /\ reader = <<>>
    /\ last = [op |-> "init", n |-> 0, a |-> 0, b |-> 0, status |-> "ok",
               before |-> ConstraintSystem_default]
    /\ rc = NoCircuit
    /\ heap = <<ConstraintSystem_init>>
    /\ transcript = 0
    /\ log = NoLog
    /\ prover = NoProver

\* a call on the system that returned r
GateCall(op, a, b, r) ==
    /\ pc = "run"
    /\ last.n < MaxGates
    /\ last' = [op |-> op, n |-> last.n + 1, a |-> a, b |-> b, status |-> r.status,
                before |-> heap[1]]
    /\ heap' = <<r.cs>>
    /\ pc' = IF r.status = "ok" THEN "run" ELSE "panic"
    /\ UNCHANGED <<reader, rc, transcript, log, prover>>

CallNewVariable == \E f \in GateValues : GateCall("new_variable", f, 0, new_variable(heap[1], f))

CallConstantGate == \E c \in GateValues : GateCall("constant_gate", c, 0, constant_gate(heap[1], c))

CallAssertZero == \E a \in VariableIndexes : GateCall("assert_zero", a, 0, assert_zero(heap[1], a))

CallAssertOne == \E a \in VariableIndexes : GateCall("assert_one", a, 0, assert_one(heap[1], a))

CallAssertBinary ==
    \E a \in VariableIndexes : GateCall("assert_binary", a, 0, assert_binary(heap[1], a))

CallAssertNoneZero ==
    \E a \in VariableIndexes : GateCall("assert_none_zero", a, 0, assert_none_zero(heap[1], a))

CallAdditionGate ==
    \E a \in VariableIndexes, b \in VariableIndexes :
        GateCall("addition_gate", a, b, addition_gate(heap[1], a, b))

CallSubtractionGate ==
    \E a \in VariableIndexes, b \in VariableIndexes :
        GateCall("subtraction_gate", a, b, subtraction_gate(heap[1], a, b))

CallMultiplicationGate ==
    \E a \in VariableIndexes, b \in VariableIndexes :
        GateCall("multiplication_gate", a, b, multiplication_gate(heap[1], a, b))

CallDivisionGate ==
    \E a \in VariableIndexes, b \in VariableIndexes :
        GateCall("division_gate", a, b, division_gate(heap[1], a, b))

NextPlonk ==
    \/ CallNewVariable
    \/ CallConstantGate
    \/ CallAssertZero
    \/ CallAssertOne
    \/ CallAssertBinary
    \/ CallAssertNoneZero
    \/ CallAdditionGate
    \/ CallSubtractionGate
    \/ CallMultiplicationGate
    \/ CallDivisionGate

SpecPlonk == InitPlonk /\ [][NextPlonk]_vars

\* the eight columns have one length
ColumnsEqual(cs) ==
    \A col \in {cs.q_r, cs.q_o, cs.q_m, cs.q_c, cs.a, cs.b, cs.c} : Len(col) = Len(cs.q_l)

\* the builder has made a call
Called == last.op # "init" /\ Len(heap) = 1

(***************************************************************************)
(* C30.  Every gate-adding operation keeps the system satisfied: after     *)
(* init and any calls of new_variable, constant_gate, assert_zero,         *)
(* assert_one, assert_binary, assert_none_zero and of the addition,        *)
(* subtraction, multiplication and division gates that have not aborted,   *)
(* the eight columns have one length, every row satisfies                  *)
(* q_l a + q_r b + q_o c + q_m a b + q_c = 0 and is_satisfied returns      *)
(* true; and a call of assert_zero, assert_one, assert_binary or           *)
(* assert_none_zero on a variable whose value violates the assertion       *)
(* aborts and adds no row.                                                 *)
(***************************************************************************)
C30_GatesKeepSatisfied ==
    /\ (pc = "run" /\ Len(heap) = 1) =>
           /\ ColumnsEqual(heap[1])
           /\ \A index \in 0..(Len(heap[1].q_l) - 1) :
                  RowReadable(heap[1], index) /\ RowHolds(heap[1], index)
           /\ is_satisfied(heap[1]) = CsOk(heap[1], TRUE)
    /\ (/\ Called
        /\ last.op \in {"assert_zero", "assert_one", "assert_binary", "assert_none_zero"}
        /\ last.a < Len(last.before.variables)) =>
           /\ (last.op = "assert_zero" /\ At(last.before.variables, last.a) # 0)
                  => (pc = "panic" /\ heap[1] = last.before)
           /\ (last.op = "assert_one" /\ At(last.before.variables, last.a) # 1)
                  => (pc = "panic" /\ heap[1] = last.before)
           /\ (last.op = "assert_binary" /\ At(last.before.variables, last.a) \notin {0, 1})
                  => (pc = "panic" /\ heap[1] = last.before)
           /\ (last.op = "assert_none_zero" /\ At(last.before.variables, last.a) = 0)
                  => (pc = "panic" /\ heap[1] = last.before)

(***************************************************************************)
(* The layer's helper under any order of calls: once the helper of the     *)
(* first layer proved is made and its table prepared, receive_challenge is *)
(* called on any var_idx from 0 to 2 * input_var_num; last is the call,    *)
(* with the helper as it was before it.                                    *)
(***************************************************************************)
CallReceiveChallenge ==
    /\ pc = "proving"
    /\ prover.at = "x"
    /\ \E var_idx \in 0..(2 * prover.helper.input_var_num), r \in ChallengeValues :
          /\ prover' = Stepped(prover,
                           receive_challenge(prover.helper, prover.sp, LayerOf(prover),
                                             var_idx, r), "x")
          /\ last' = [op |-> "receive_challenge", var_idx |-> var_idx, r |-> r,
                      status |-> receive_challenge(prover.helper, prover.sp,
                                                   LayerOf(prover), var_idx, r).status,
                      before |-> prover.helper]
          /\ pc' = AfterStep(receive_challenge(prover.helper, prover.sp, LayerOf(prover),
                                               var_idx, r))
    /\ UNCHANGED <<reader, rc, heap, transcript, log>>

NextHelper ==
    \/ CallLoadProveCircuit
    \/ CallSetProveInput
    \/ CallEvaluate
    \/ CallPrepareMem
    \/ GkrProveBegin
    \/ SumcheckBegin
    \/ CallReceiveChallenge

SpecHelper == InitLoad /\ [][NextHelper]_vars

\* a helper is at work
HelperMade == pc \in {"proving", "panic"} /\ prover.at = "x"

\* receive_challenge has been called
Received_challenge == HelperMade /\ last.op = "receive_challenge"

\* var_idx is the round the phase of var_idx is at in helper h, and is a
\* round of that phase
InRoundOrder(h, var_idx) ==
    IF var_idx < h.input_var_num THEN var_idx = Len(h.rx)
    ELSE /\ var_idx - h.input_var_num = Len(h.ry)
         /\ var_idx - h.input_var_num < h.input_var_num

\* the counters of a phase's helper after k challenges
PhaseAt(ph, n, k) == ph.sumcheck_var_idx = k /\ ph.cur_eval_size = Pow2(n - k)

\* receive_challenge aborts unless var_idx is the phase's round
C29_Guard ==
    Received_challenge =>
        /\ (last.status = "ok") <=> InRoundOrder(last.before, last.var_idx)
        /\ (last.status # "ok") => (pc = "panic" /\ prover.helper = last.before)

\* the counters of both phases follow the challenges accepted
C29_Counters ==
    HelperMade =>
        /\ Len(prover.helper.rx) <= prover.helper.input_var_num
        /\ Len(prover.helper.ry) <= prover.helper.input_var_num
        /\ PhaseAt(prover.helper.x_helper, prover.helper.input_var_num, Len(prover.helper.rx))
        /\ PhaseAt(prover.helper.y_helper, prover.helper.input_var_num, Len(prover.helper.ry))

\* an accepted challenge is appended to rx in phase X and to ry in phase Y
C29_Growth ==
    (Received_challenge /\ last.status = "ok") =>
        IF last.var_idx < last.before.input_var_num
        THEN /\ prover.helper.rx = Append(last.before.rx, last.r)
             /\ prover.helper.ry = last.before.ry
        ELSE /\ prover.helper.ry = Append(last.before.ry, last.r)
             /\ prover.helper.rx = last.before.rx

\* after 2n challenges rx and ry have n elements each
C29_Lengths ==
    (HelperMade /\ Len(prover.helper.rx) + Len(prover.helper.ry)
                       = 2 * prover.helper.input_var_num) =>
        /\ Len(prover.helper.rx) = prover.helper.input_var_num
        /\ Len(prover.helper.ry) = prover.helper.input_var_num

\* ry is empty until rx has its n elements
C29_XBeforeY ==
    (HelperMade /\ Len(prover.helper.ry) >= 1) =>
        Len(prover.helper.rx) = prover.helper.input_var_num

=============================================================================
